---- MODULE Spec2Model ----
(***************************************************************************)
(* ModernCppPractices: the sample registry (src/SampleRegistry.hpp), the   *)
(* self-registration of the demonstration modules (REGISTER_SAMPLE) and    *)
(* the command-line entry point (src/main.cpp).                            *)
(*                                                                         *)
(* Three specifications share the variables:                               *)
(*   Spec      the registry driven by arbitrary registerSample/createAll  *)
(*             calls (the API as a client may use it);                     *)
(*   SpecInit  static initialization of the repository's translation      *)
(*             units, in any order (the order across units is             *)
(*             unspecified by the language);                               *)
(*   SpecCLI   one run of main(), started after static initialization.    *)
(*                                                                         *)
(* The demonstrations themselves have their own variables and              *)
(* specifications:                                                         *)
(*   SpecThreads  ThreadSafetySample::run() and the threads it starts;     *)
(*   SpecCoro     demonstrate_awaitables() and the coroutine it calls;     *)
(*   SpecSafety   ExceptionSafetyLevels under arbitrary add_resource_*     *)
(*                calls;                                                   *)
(*   SpecTx       one Transaction, from declaration to destruction;        *)
(*   SpecRule     HeapResource and ProperResource objects under arbitrary  *)
(*                special member function calls.                           *)
(***************************************************************************)
EXTENDS Integers, Sequences, FiniteSets, TLC

VARIABLES
    samples_,    \* SampleRegistry::samples_ : std::map<int, SampleEntry>
    calls,       \* history of the registerSample calls made so far
    createLog,   \* history of the createAll calls made so far
    nextId,      \* identity of the next object make_unique allocates
    pending,     \* translation units whose static registrar has not run yet
    pc,          \* position of main()
    argv,        \* the command-line arguments after the program name
    samples,     \* main's local vector of owned samples
    num,         \* main's local num (result of std::stoi)
    out,         \* lines written to standard output
    loop_i,      \* main's loop index i over samples (0-based, as in the code)
    ran,         \* the objects whose run() was called, in order
    runOutcome,  \* how the last run() call ended ("none" before any call)
    exitCode     \* process exit status (-1 while running)

\* ThreadSafetySample (src/15_ThreadSafety)
VARIABLES
    demo,           \* the demonstration run() is in
    mi,             \* position of the main thread in that demonstration
    tpc,            \* position of each thread the demonstration started
    ti,             \* each thread's loop index i
    tmp,            \* the value a thread loaded from counter (data race)
    owner,          \* std::mutex: the thread that holds it, or Free
    rw_lock,        \* std::shared_mutex: its writer and its readers
    queue_,         \* ThreadSafeQueue::queue_
    cv_waiting,     \* threads blocked in ThreadSafeQueue::cv_
    spurious,       \* spurious wake-ups so far in this demonstration
    counter,        \* the shared counter of the three counting demonstrations
    shared_data,    \* shared_data of the lock-order and reader-writer demos
    readers_active, \* std::atomic<int> readers_active
    balance         \* BankAccount::balance_ of account_a and account_b

ctlVars == <<demo, mi>>
lockVars == <<owner, rw_lock>>
queueVars == <<queue_, cv_waiting, spurious>>
dataVars == <<counter, shared_data, readers_active, balance>>
threadVars == <<ctlVars, tpc, ti, tmp, lockVars, queueVars, dataVars>>

\* demonstrate_awaitables (src/17_Coroutines)
VARIABLES
    delays,      \* milliseconds of the two SimulatedDelay objects awaited
    coPc,        \* position of the coroutine demonstrate_awaitable
    callerPc,    \* position of demonstrate_awaitables
    coOut        \* lines the two of them wrote to standard output

coroVars == <<delays, coPc, callerPc, coOut>>

\* ExceptionSafetyLevels (src/09_ExceptionSafety)
VARIABLES
    resources_,       \* ExceptionSafetyLevels::resources_
    use_count,        \* std::shared_ptr use count of each live SafetyResource
    instance_count_,  \* SafetyResource::instance_count_
    addLog            \* history of the add_resource_* calls made so far

\* Transaction (src/09_ExceptionSafety)
VARIABLES
    rollbacks_,       \* Transaction::rollbacks_
    committed_,       \* Transaction::committed_
    destroyed,        \* ~Transaction has run
    executed          \* the rollback actions ~Transaction invoked, in order

txVars == <<rollbacks_, committed_, destroyed, executed>>

safetyVars == <<resources_, use_count, instance_count_, addLog, txVars>>

\* HeapResource and ProperResource objects (src/05_RuleOfFive)
VARIABLES
    objects,     \* each object's lifetime and its members data_ and size_
    allocated,   \* buffers that new / new[] returned so far
    freed,       \* how many times delete / delete[] was applied to each buffer
    fault        \* the invalid memory access the program made, if any

ruleVars == <<objects, allocated, freed, fault>>

demoVars == <<threadVars, coroVars, safetyVars, ruleVars>>

vars == <<samples_, calls, createLog, nextId, pending, pc, argv, samples,
          num, out, loop_i, ran, runOutcome, exitCode, demoVars>>

registryVars == <<samples_, calls, createLog, nextId>>
mainVars == <<pc, argv, samples, num, out, loop_i, ran, runOutcome, exitCode>>

----------------------------------------------------------------------------
(* Bounds of the model *)

MaxKey == 3          \* order keys 1..MaxKey in Spec
MaxCalls == 2        \* registerSample calls in one behaviour of Spec
MaxCreateAll == 2    \* createAll calls in one behaviour of Spec
MaxArgLen == 2       \* characters of a generated command-line argument
MaxIter == 2         \* iterations of a thread's loop (100000, 5 and 3 in the source)
MaxSpurious == 1     \* spurious wake-ups of cv_.wait in one demonstration
MaxAdds == 3         \* add_resource_* calls in one behaviour of SpecSafety
MaxRollbacks == 3    \* add_rollback calls on one Transaction in SpecTx
MaxObjects == 3      \* HeapResource / ProperResource objects in SpecRule
MaxBuffers == 4      \* allocations in one behaviour of SpecRule

Keys == 1..MaxKey
Names == {"A", "B"}
Factories == {"F1", "F2"}

----------------------------------------------------------------------------
(* The demonstrations before they are started *)

\* the threads one demonstration starts, numbered in the order it starts them
Threads == 1..6

Mutexes == {"counter_mutex", "mutex_a", "mutex_b", "account_a", "account_b",
            "queue"}

\* a mutex nobody holds
Free == 0

\* the locals of a demonstration as it declares them
LocalsInit ==
    /\ mi = 1
    /\ tpc = [t \in Threads |-> "none"]
    /\ ti = [t \in Threads |-> 0]
    /\ tmp = [t \in Threads |-> 0]
    /\ owner = [m \in Mutexes |-> Free]
    /\ rw_lock = [writer |-> Free, readers |-> {}]
    /\ queue_ = << >>
    /\ cv_waiting = {}
    /\ spurious = 0
    /\ counter = 0
    /\ shared_data = 0
    /\ readers_active = 0
    /\ balance = [account_a |-> 1000, account_b |-> 500]

\* ThreadSafetySample::run() has not been called
ThreadsIdle == demo = "none" /\ LocalsInit

\* demonstrate_awaitables() has not been called; the delays are those of
\* the source
CoroIdle ==
    /\ delays = <<100, 50>>
    /\ coPc = "not_created"
    /\ callerPc = "idle"
    /\ coOut = << >>

\* a default-constructed ExceptionSafetyLevels and no SafetyResource alive;
\* a Transaction as its declaration leaves it
SafetyInit ==
    /\ resources_ = << >>
    /\ use_count = << >>
    /\ instance_count_ = 0
    /\ addLog = << >>
    /\ rollbacks_ = << >>
    /\ committed_ = FALSE
    /\ destroyed = FALSE
    /\ executed = << >>

nullptr == 0

\* no HeapResource or ProperResource declared yet, nothing allocated
RuleInit ==
    /\ objects = [o \in 1..MaxObjects |->
                    [state |-> "none", cls |-> "", data_ |-> nullptr, size_ |-> 0]]
    /\ allocated = 0
    /\ freed = [b \in 1..MaxBuffers |-> 0]
    /\ fault = "none"

DemoIdle == ThreadsIdle /\ CoroIdle /\ SafetyInit /\ RuleInit

----------------------------------------------------------------------------
(* Helpers on finite sets of integers and sequences *)


Range(s) == {s[i] : i \in 1..Len(s)}

----------------------------------------------------------------------------
(* SampleRegistry *)

\* variant of registerSample that keeps an existing entry (emplace/insert
\* semantics instead of operator[] assignment)
registerSampleKeepFirst(m, name, order, factory) ==
    [k \in (DOMAIN m) \cup {order} |->
        IF k \in DOMAIN m THEN m[k] ELSE [name |-> name, factory |-> factory]]

\* variant of registerSample that drops the other entries (assigns a new
\* map holding the one entry instead of assigning one element)
registerSampleClearing(m, name, order, factory) ==
    [k \in {order} |-> [name |-> name, factory |-> factory]]

\* samples_[order] = {name, std::move(factory)}: insert or overwrite
registerSample(m, name, order, factory) ==
    [k \in (DOMAIN m) \cup {order} |->
        IF k = order THEN [name |-> name, factory |-> factory] ELSE m[k]]

\* variant of InOrder that visits the keys in descending order
RECURSIVE InOrderDescending(_)
InOrderDescending(ks) ==
    IF ks = {} THEN <<>>
    ELSE LET k == CHOOSE x \in ks : \A y \in ks : x >= y
         IN  <<k>> \o InOrderDescending(ks \ {k})

\* iteration order of std::map<int, ...>: ascending key
RECURSIVE InOrder(_)
InOrder(ks) ==
    IF ks = {} THEN <<>>
    ELSE LET k == CHOOSE x \in ks : \A y \in ks : x <= y
         IN  <<k>> \o InOrder(ks \ {k})

\* the keys createAll visits, in the order it visits them
createAllKeys(m) == InOrder(DOMAIN m)

\* entry.factory(): std::make_unique<T>() yields a new object of class T
Invoke(factory, id) == [id |-> id, cls |-> factory]

\* variant of createAll that hands out the same objects on every call (a
\* registry that caches the instances it created)
createAllCached(m, id0) ==
    LET ks == createAllKeys(m)
    IN  [i \in 1..Len(ks) |-> Invoke(m[ks[i]].factory, i)]

\* the vector createAll returns when every factory returns; the i-th factory
\* invoked allocates object id0 + i
createAll(m, id0) ==
    LET ks == createAllKeys(m)
    IN  [i \in 1..Len(ks) |-> Invoke(m[ks[i]].factory, id0 + i)]

\* variant of count that is off by one
countPlusOne(m) == Cardinality(DOMAIN m) + 1

\* samples_.size()
count(m) == Cardinality(DOMAIN m)

----------------------------------------------------------------------------
(* Spec: the registry under arbitrary client calls *)

Init ==
    /\ samples_ = << >>
    /\ calls = << >>
    /\ createLog = << >>
    /\ nextId = 0
    /\ pending = {}
    /\ pc = "api"
    /\ argv = << >>
    /\ samples = << >>
    /\ num = 0
    /\ out = << >>
    /\ loop_i = 0
    /\ ran = << >>
    /\ runOutcome = "none"
    /\ exitCode = -1
    /\ DemoIdle

\* variant of RegisterSample for a registry that is closed by the first
\* createAll: a later call is taken but leaves samples_ as it is
RegisterSampleClosed(name, order, factory) ==
    /\ pc = "api"
    /\ Len(calls) < MaxCalls
    /\ samples_' = IF createLog = << >>
                   THEN registerSample(samples_, name, order, factory)
                   ELSE samples_
    /\ calls' = Append(calls, [name |-> name, order |-> order, factory |-> factory])
    /\ UNCHANGED <<createLog, nextId, pending>>
    /\ UNCHANGED mainVars
    /\ UNCHANGED demoVars

RegisterSample(name, order, factory) ==
    /\ pc = "api"
    /\ Len(calls) < MaxCalls
    /\ samples_' = registerSample(samples_, name, order, factory)
    /\ calls' = Append(calls, [name |-> name, order |-> order, factory |-> factory])
    /\ UNCHANGED <<createLog, nextId, pending>>
    /\ UNCHANGED mainVars
    /\ UNCHANGED demoVars

\* createAll() where every factory returns
CreateAll ==
    /\ pc = "api"
    /\ Len(createLog) < MaxCreateAll
    /\ LET ks == createAllKeys(samples_)
           r  == createAll(samples_, nextId)
       IN  /\ createLog' = Append(createLog,
                 [ncalls  |-> Len(calls),
                  keys    |-> ks,
                  invoked |-> [i \in 1..Len(ks) |-> samples_[ks[i]].factory],
                  outcome |-> "returned",
                  result  |-> r])
           /\ nextId' = nextId + Len(r)
    /\ UNCHANGED <<samples_, calls, pending>>
    /\ UNCHANGED mainVars
    /\ UNCHANGED demoVars

\* variant of CreateAllThrows for a createAll that swallows the failure and
\* returns the instances made so far
CreateAllThrowsPartial(j) ==
    /\ pc = "api"
    /\ Len(createLog) < MaxCreateAll
    /\ LET ks == createAllKeys(samples_)
       IN  /\ j \in 1..Len(ks)
           /\ createLog' = Append(createLog,
                 [ncalls  |-> Len(calls),
                  keys    |-> SubSeq(ks, 1, j),
                  invoked |-> [i \in 1..j |-> samples_[ks[i]].factory],
                  outcome |-> "threw",
                  result  |-> [i \in 1..(j - 1) |->
                                 Invoke(samples_[ks[i]].factory, nextId + i)]])
           /\ nextId' = nextId + (j - 1)
    /\ UNCHANGED <<samples_, calls, pending>>
    /\ UNCHANGED mainVars
    /\ UNCHANGED demoVars

\* createAll() where the j-th factory invoked throws (std::bad_alloc from
\* make_unique, or T's constructor): the loop is left, result is destroyed
\* during unwinding, the exception reaches the caller
CreateAllThrows(j) ==
    /\ pc = "api"
    /\ Len(createLog) < MaxCreateAll
    /\ LET ks == createAllKeys(samples_)
       IN  /\ j \in 1..Len(ks)
           /\ createLog' = Append(createLog,
                 [ncalls  |-> Len(calls),
                  keys    |-> SubSeq(ks, 1, j),
                  invoked |-> [i \in 1..j |-> samples_[ks[i]].factory],
                  outcome |-> "threw",
                  result  |-> << >>])
           /\ nextId' = nextId + (j - 1)
    /\ UNCHANGED <<samples_, calls, pending>>
    /\ UNCHANGED mainVars
    /\ UNCHANGED demoVars

Next ==
    \/ \E n \in Names, k \in Keys, f \in Factories : RegisterSample(n, k, f)
    \/ CreateAll
    \/ \E j \in 1..MaxKey : CreateAllThrows(j)

Spec == Init /\ [][Next]_vars

----------------------------------------------------------------------------
(* The demonstration modules of the repository *)

\* the sample classes, one per module directory 01_ .. 26_
DemoModules ==
    {"RAIISample", "SFINAESample", "CRTPSample", "PimplSample",
     "RuleOfFiveSample", "TypeErasureSample", "VariantVisitorSample",
     "SmartPointersSample", "ExceptionSafetySample", "MoveSemanticsSample",
     "TagDispatchingSample", "DeepShallowCopySample", "CopyAndSwapIdiomSample",
     "CastSample", "ThreadSafetySample", "ConceptsSample", "CoroutinesSample",
     "SRPSample", "OCPSample", "LSPSample", "ISPSample", "DIPSample",
     "UMLRelationshipsSample", "ThreeWayComparisonSample", "ProjectionsSample",
     "InputOutputStreamSample"}

\* variant of Reg in which only the last digit of the order key is kept
RegLastDigit(cls, name, order) == [cls |-> cls, name |-> name, order |-> order % 10]

Reg(cls, name, order) == [cls |-> cls, name |-> name, order |-> order]

\* every REGISTER_SAMPLE(ClassName, DisplayName, Order) of the repository
Registrations ==
    {Reg("RAIISample", "RAII", 1),
     Reg("SFINAESample", "SFINAE", 2),
     Reg("CRTPSample", "CRTP", 3),
     Reg("PimplSample", "Pimpl", 4),
     Reg("RuleOfFiveSample", "Rule of Five", 5),
     Reg("TypeErasureSample", "Type Erasure", 6),
     Reg("VariantVisitorSample", "Variant Visitor", 7),
     Reg("ExceptionSafetySample", "Exception Safety", 9),
     Reg("MoveSemanticsSample", "Move Semantics", 10),
     Reg("ConceptsSample", "C++20 Concepts", 16),
     Reg("CoroutinesSample", "C++20 Coroutines", 17),
     Reg("SRPSample", "Single Responsibility Principle", 18),
     Reg("OCPSample", "Open/Closed Principle", 19),
     Reg("LSPSample", "Liskov Substitution Principle", 20),
     Reg("ISPSample", "Interface Segregation Principle", 21),
     Reg("DIPSample", "Dependency Inversion Principle", 22),
     Reg("UMLRelationshipsSample", "UML Relationships", 23),
     Reg("ThreeWayComparisonSample", "Three-Way Comparison (Spaceship Operator)", 24),
     Reg("ProjectionsSample", "Projections (C++20 Ranges)", 25),
     Reg("InputOutputStreamSample", "Input/Output Stream Extensions", 26)}

\* T::name() of each sample class
SampleName(cls) ==
    CASE cls = "RAIISample" -> "01_RAII - Resource Acquisition Is Initialization"
      [] cls = "SFINAESample" -> "02_SFINAE - Substitution Failure Is Not An Error"
      [] cls = "CRTPSample" -> "03_CRTP - Curiously Recurring Template Pattern"
      [] cls = "PimplSample" -> "04_PIMPL - Pointer to Implementation"
      [] cls = "RuleOfFiveSample" -> "05_RuleOfFive - Rule of Five"
      [] cls = "TypeErasureSample" -> "06_TypeErasure - Type Erasure"
      [] cls = "VariantVisitorSample" -> "07_VariantVisitor - Variant and Visitor Pattern"
      [] cls = "SmartPointersSample" -> "08_SmartPointers - Smart Pointers"
      [] cls = "ExceptionSafetySample" -> "09_ExceptionSafety - Exception Safety"
      [] cls = "MoveSemanticsSample" -> "Move Semantics"
      [] cls = "TagDispatchingSample" -> "Tag Dispatching"
      [] cls = "DeepShallowCopySample" -> "Deep vs Shallow Copy"
      [] cls = "CopyAndSwapIdiomSample" -> "Copy and Swap Idiom"
      [] cls = "CastSample" -> "C++ Cast Types"
      [] OTHER -> cls

\* SampleRegistrar<T>(name, order): registers a factory that makes a T; the
\* factory is identified by the class it constructs
SampleRegistrar(m, r) == registerSample(m, r.name, r.order, r.cls)

\* the registry once every registrar has run, taking the registrars in
\* ascending order of their key
RECURSIVE RegisterAll(_, _)
RegisterAll(m, rs) ==
    IF rs = {} THEN m
    ELSE LET r == CHOOSE x \in rs : \A y \in rs : x.order <= y.order
         IN  RegisterAll(SampleRegistrar(m, r), rs \ {r})

RegistryAfterStaticInit == RegisterAll(<< >>, Registrations)

----------------------------------------------------------------------------
(* SpecInit: static initialization, one registrar per translation unit,   *)
(* in any order                                                            *)

InitStatic ==
    /\ samples_ = << >>
    /\ calls = << >>
    /\ createLog = << >>
    /\ nextId = 0
    /\ pending = Registrations
    /\ pc = "static_init"
    /\ argv = << >>
    /\ samples = << >>
    /\ num = 0
    /\ out = << >>
    /\ loop_i = 0
    /\ ran = << >>
    /\ runOutcome = "none"
    /\ exitCode = -1
    /\ DemoIdle

\* static SampleRegistrar<ClassName> registrar_ClassName(DisplayName, Order)
StaticRegister(r) ==
    /\ pc = "static_init"
    /\ r \in pending
    /\ samples_' = SampleRegistrar(samples_, r)
    /\ pending' = pending \ {r}
    /\ UNCHANGED <<calls, createLog, nextId>>
    /\ UNCHANGED mainVars
    /\ UNCHANGED demoVars

NextInit == \E r \in Registrations : StaticRegister(r)

SpecInit == InitStatic /\ [][NextInit]_vars

\* the registry after static initialization does not depend on the order in
\* which the translation units were initialized
StaticInitOrderIrrelevant == pending = {} => samples_ = RegistryAfterStaticInit

----------------------------------------------------------------------------
(* std::stoi on a string given as a sequence of characters *)

IntMax == (2^30 - 1) * 2 + 1
IntMin == -IntMax - 1

Digits == {"0", "1", "2", "3", "4", "5", "6", "7", "8", "9"}

DigitVal(c) ==
    CASE c = "0" -> 0 [] c = "1" -> 1 [] c = "2" -> 2 [] c = "3" -> 3
      [] c = "4" -> 4 [] c = "5" -> 5 [] c = "6" -> 6 [] c = "7" -> 7
      [] c = "8" -> 8 [] c = "9" -> 9

\* strtol skips leading white space
RECURSIVE SkipSpace(_)
SkipSpace(s) ==
    IF s # << >> /\ Head(s) = " " THEN SkipSpace(Tail(s)) ELSE s

\* the longest prefix of s made of digits
RECURSIVE DigitPrefix(_)
DigitPrefix(s) ==
    IF s # << >> /\ Head(s) \in Digits
    THEN <<Head(s)>> \o DigitPrefix(Tail(s))
    ELSE << >>

\* the value of -(digits), accumulated on the negative side so that IntMin
\* is representable; ovf is set when the magnitude exceeds IntMax + 1
RECURSIVE NegAccumulate(_, _)
NegAccumulate(acc, ds) ==
    IF ds = << >> THEN acc
    ELSE LET d == DigitVal(Head(ds))
             lim == -(IntMax \div 10)
         IN  IF \/ acc.ovf
                \/ acc.v < lim
                \/ acc.v = lim /\ d > (IntMax % 10) + 1
             THEN [v |-> 0, ovf |-> TRUE]
             ELSE NegAccumulate([v |-> acc.v * 10 - d, ovf |-> FALSE], Tail(ds))

StoiResult(exc, value) == [exc |-> exc, value |-> value]

\* variant of stoi with atoi's behaviour: 0 when there is no number, the
\* nearest bound when the value does not fit
stoiNoThrow(s) ==
    LET t   == SkipSpace(s)
        neg == t # << >> /\ Head(t) = "-"
        u   == IF t # << >> /\ Head(t) \in {"-", "+"} THEN Tail(t) ELSE t
        ds  == DigitPrefix(u)
        a   == NegAccumulate([v |-> 0, ovf |-> FALSE], ds)
    IN  IF ds = << >> THEN StoiResult("none", 0)
        ELSE IF a.ovf \/ (~neg /\ a.v = IntMin)
             THEN StoiResult("none", IF neg THEN IntMin ELSE IntMax)
             ELSE StoiResult("none", IF neg THEN a.v ELSE -a.v)

\* variant of stoi that rejects a number followed by other characters
stoiStrict(s) ==
    LET t   == SkipSpace(s)
        neg == t # << >> /\ Head(t) = "-"
        u   == IF t # << >> /\ Head(t) \in {"-", "+"} THEN Tail(t) ELSE t
        ds  == DigitPrefix(u)
        a   == NegAccumulate([v |-> 0, ovf |-> FALSE], ds)
    IN  IF ds = << >> \/ Len(ds) < Len(u) THEN StoiResult("invalid_argument", 0)
        ELSE IF a.ovf \/ (~neg /\ a.v = IntMin)
             THEN StoiResult("out_of_range", 0)
             ELSE StoiResult("none", IF neg THEN a.v ELSE -a.v)

\* std::stoi(argv[1]): white space, an optional sign, then the longest run of
\* digits; std::invalid_argument when there is no digit, std::out_of_range
\* when the value does not fit in an int; characters after the digits are
\* ignored
stoi(s) ==
    LET t   == SkipSpace(s)
        neg == t # << >> /\ Head(t) = "-"
        u   == IF t # << >> /\ Head(t) \in {"-", "+"} THEN Tail(t) ELSE t
        ds  == DigitPrefix(u)
        a   == NegAccumulate([v |-> 0, ovf |-> FALSE], ds)
    IN  IF ds = << >> THEN StoiResult("invalid_argument", 0)
        ELSE IF a.ovf \/ (~neg /\ a.v = IntMin)
             THEN StoiResult("out_of_range", 0)
             ELSE StoiResult("none", IF neg THEN a.v ELSE -a.v)

----------------------------------------------------------------------------
(* SpecCLI: one run of main() *)

\* variant of MainSamples with the last push_back missing
MainSamplesWithoutLast ==
    <<"RAIISample", "SFINAESample", "CRTPSample", "PimplSample",
      "RuleOfFiveSample", "TypeErasureSample", "VariantVisitorSample",
      "SmartPointersSample", "ExceptionSafetySample", "MoveSemanticsSample",
      "TagDispatchingSample", "DeepShallowCopySample", "CopyAndSwapIdiomSample">>

\* the classes main() constructs, in push_back order
MainSamples ==
    <<"RAIISample", "SFINAESample", "CRTPSample", "PimplSample",
      "RuleOfFiveSample", "TypeErasureSample", "VariantVisitorSample",
      "SmartPointersSample", "ExceptionSafetySample", "MoveSemanticsSample",
      "TagDispatchingSample", "DeepShallowCopySample", "CopyAndSwapIdiomSample",
      "CastSample">>


\* arguments longer than MaxArgLen: the bounds of int, a value past each
\* bound, a number followed by letters, a word
ExtraArgs ==
    {<<"2", "1", "4", "7", "4", "8", "3", "6", "4", "7">>,
     <<"2", "1", "4", "7", "4", "8", "3", "6", "4", "8">>,
     <<"-", "2", "1", "4", "7", "4", "8", "3", "6", "4", "8">>,
     <<"-", "2", "1", "4", "7", "4", "8", "3", "6", "4", "9">>,
     <<"9", "9", "9", "9", "9", "9", "9", "9", "9", "9", "9">>,
     <<"3", "a", "b", "c">>,
     <<"a", "b", "c">>}

ArgStrings ==
    UNION {[1..n -> Digits \cup {" ", "-", "+", "a"}] : n \in 0..MaxArgLen}
        \cup ExtraArgs

\* argv without the program name: no argument, or one argument
ArgvChoices == {<< >>} \cup {<<a>> : a \in ArgStrings}

\* argc as main sees it
argc == Len(argv) + 1

Line(fmt, n, name) == [fmt |-> fmt, n |-> n, name |-> name]

InvalidNumberLine(size) ==
    Line("Invalid sample number. Available samples: 1-<n>", size, "")
InvalidArgumentLine == Line("Invalid argument. Please provide a number.", 0, "")
ItemLine(n, name) == Line("<n>: <name>", n, name)
UsageLine == Line("Run with: ./main <number>", 0, "")

\* variant of InRange without the lower bound
InRangeNoLowerBound(n, size) == n <= size

\* num >= 1 && num <= static_cast<int>(samples.size())
InRange(n, size) == n >= 1 /\ n <= size

\* variant of Caught for a handler that catches nothing
CaughtNothing(exc) == FALSE

\* variant of Caught for a handler of the two exceptions of std::stoi only
CaughtOnlyParseErrors(exc) == exc \in {"invalid_argument", "out_of_range"}

\* catch (const std::exception&): std::invalid_argument, std::out_of_range
\* and any other class derived from std::exception
Caught(exc) == exc \in {"invalid_argument", "out_of_range", "std_exception"}

\* samples[k] for a 0-based k; outside the vector the access is undefined
\* (no guarded path of main reaches it)
At(v, k) ==
    IF k + 1 \in DOMAIN v THEN v[k + 1] ELSE [id |-> 0, cls |-> "<out of bounds>"]

InitCLI ==
    /\ samples_ = RegistryAfterStaticInit
    /\ calls = << >>
    /\ createLog = << >>
    /\ nextId = 0
    /\ pending = {}
    /\ pc = "construct"
    /\ argv \in ArgvChoices
    /\ samples = << >>
    /\ num = 0
    /\ out = << >>
    /\ loop_i = 0
    /\ ran = << >>
    /\ runOutcome = "none"
    /\ exitCode = -1
    /\ DemoIdle

\* samples.push_back(std::make_unique<T>()) for the next T of the list
MainPushBack ==
    /\ pc = "construct"
    /\ Len(samples) < Len(MainSamples)
    /\ samples' = Append(samples, Invoke(MainSamples[Len(samples) + 1], nextId + 1))
    /\ nextId' = nextId + 1
    /\ UNCHANGED <<samples_, calls, createLog, pending>>
    /\ UNCHANGED <<pc, argv, num, out, loop_i, ran, runOutcome, exitCode>>
    /\ UNCHANGED demoVars

\* if (argc > 1) ... else ...
MainBranch ==
    /\ pc = "construct"
    /\ Len(samples) = Len(MainSamples)
    /\ pc' = IF argc > 1 THEN "parse" ELSE "list_header"
    /\ UNCHANGED registryVars
    /\ UNCHANGED <<pending, argv, samples, num, out, loop_i, ran, runOutcome, exitCode>>
    /\ UNCHANGED demoVars

\* throw: the handler of main's try block takes it, or nothing does and
\* std::terminate aborts the process (SIGABRT, status 134)
Throw(exc) ==
    IF Caught(exc)
    THEN pc' = "catch" /\ exitCode' = exitCode
    ELSE pc' = "aborted" /\ exitCode' = 134

\* int num = std::stoi(argv[1]);
MainStoi ==
    /\ pc = "parse"
    /\ LET r == stoi(argv[1])
       IN  IF r.exc = "none"
           THEN /\ num' = r.value
                /\ pc' = "check"
                /\ UNCHANGED exitCode
           ELSE /\ Throw(r.exc)
                /\ UNCHANGED num
    /\ UNCHANGED registryVars
    /\ UNCHANGED <<pending, argv, samples, out, loop_i, ran, runOutcome>>
    /\ UNCHANGED demoVars

\* if (num >= 1 && num <= size) samples[num - 1]->run(); else print
MainCheck ==
    /\ pc = "check"
    /\ IF InRange(num, Len(samples))
       THEN /\ ran' = Append(ran, At(samples, num - 1))
            /\ pc' = "in_run"
            /\ UNCHANGED out
       ELSE /\ out' = Append(out, InvalidNumberLine(Len(samples)))
            /\ pc' = "return"
            /\ UNCHANGED ran
    /\ UNCHANGED registryVars
    /\ UNCHANGED <<pending, argv, samples, num, loop_i, runOutcome, exitCode>>
    /\ UNCHANGED demoVars

\* run() returns
RunReturns ==
    /\ pc = "in_run"
    /\ runOutcome' = "returned"
    /\ pc' = "return"
    /\ UNCHANGED registryVars
    /\ UNCHANGED <<pending, argv, samples, num, out, loop_i, ran, exitCode>>
    /\ UNCHANGED demoVars

\* run() lets an exception escape: one derived from std::exception, or one
\* of another type (Testable::run is a pure virtual with no exception
\* specification)
RunThrows(exc) ==
    /\ pc = "in_run"
    /\ runOutcome' = exc
    /\ Throw(exc)
    /\ UNCHANGED registryVars
    /\ UNCHANGED <<pending, argv, samples, num, out, loop_i, ran>>
    /\ UNCHANGED demoVars

\* catch (const std::exception&) { print "Invalid argument..." }
MainCatch ==
    /\ pc = "catch"
    /\ out' = Append(out, InvalidArgumentLine)
    /\ pc' = "return"
    /\ UNCHANGED registryVars
    /\ UNCHANGED <<pending, argv, samples, num, loop_i, ran, runOutcome, exitCode>>
    /\ UNCHANGED demoVars

\* std::cout << "Available samples:"; size_t i = 0
MainListHeader ==
    /\ pc = "list_header"
    /\ out' = Append(out, Line("Available samples:", 0, ""))
    /\ loop_i' = 0
    /\ pc' = "list"
    /\ UNCHANGED registryVars
    /\ UNCHANGED <<pending, argv, samples, num, ran, runOutcome, exitCode>>
    /\ UNCHANGED demoVars

\* one iteration of for (i < samples.size()): print i + 1, samples[i]->name()
MainListItem ==
    /\ pc = "list"
    /\ loop_i < Len(samples)
    /\ out' = Append(out, ItemLine(loop_i + 1, SampleName(At(samples, loop_i).cls)))
    /\ loop_i' = loop_i + 1
    /\ UNCHANGED registryVars
    /\ UNCHANGED <<pending, pc, argv, samples, num, ran, runOutcome, exitCode>>
    /\ UNCHANGED demoVars

\* loop exit, then std::cout << "Run with: ./main <number>"
MainListUsage ==
    /\ pc = "list"
    /\ ~(loop_i < Len(samples))
    /\ out' = Append(out, UsageLine)
    /\ pc' = "return"
    /\ UNCHANGED registryVars
    /\ UNCHANGED <<pending, argv, samples, num, loop_i, ran, runOutcome, exitCode>>
    /\ UNCHANGED demoVars

\* return 0;
MainReturn ==
    /\ pc = "return"
    /\ exitCode' = 0
    /\ pc' = "exited"
    /\ UNCHANGED registryVars
    /\ UNCHANGED <<pending, argv, samples, num, out, loop_i, ran, runOutcome>>
    /\ UNCHANGED demoVars

NextCLI ==
    \/ MainPushBack
    \/ MainBranch
    \/ MainStoi
    \/ MainCheck
    \/ RunReturns
    \/ \E exc \in {"std_exception", "other_exception"} : RunThrows(exc)
    \/ MainCatch
    \/ MainListHeader
    \/ MainListItem
    \/ MainListUsage
    \/ MainReturn

SpecCLI == InitCLI /\ [][NextCLI]_vars

----------------------------------------------------------------------------
(* SpecThreads: ThreadSafetySample::run() and the threads it starts *)

\* the demonstrations in the order run() calls them
Demonstrations ==
    <<"data_race", "mutex_solution", "atomic_solution", "deadlock_risk",
      "scoped_lock_solution", "condition_variables", "async_futures",
      "thread_safe_queue", "reader_writer_lock", "best_practices">>

\* the steps of the main thread inside a demonstration
StartThread(t, entry) == [op |-> "start", t |-> t, entry |-> entry]
JoinThread(t) == [op |-> "join", t |-> t, entry |-> ""]
FutureGet(t) == [op |-> "get", t |-> t, entry |-> ""]

\* what the main thread does in demonstration d: the threads it constructs
\* (with the first position of their function), the joins, the future::get
\* calls; the futures of std::async join their thread when they are destroyed
MainProgram(d) ==
    CASE d = "data_race" ->
           <<StartThread(1, "load"), StartThread(2, "load"),
             JoinThread(1), JoinThread(2)>>
      [] d = "mutex_solution" ->
           <<StartThread(1, "lock_counter"), StartThread(2, "lock_counter"),
             JoinThread(1), JoinThread(2)>>
      [] d = "atomic_solution" ->
           <<StartThread(1, "fetch_add"), StartThread(2, "fetch_add"),
             JoinThread(1), JoinThread(2)>>
      [] d = "deadlock_risk" ->
           <<StartThread(1, "lock_a"), StartThread(2, "lock_a"),
             JoinThread(1), JoinThread(2)>>
      [] d = "scoped_lock_solution" ->
           <<StartThread(1, "transfer"), StartThread(2, "transfer"),
             JoinThread(1), JoinThread(2)>>
      [] d = "condition_variables" ->
           <<StartThread(1, "push_lock"), StartThread(2, "pop_lock"),
             JoinThread(1), JoinThread(2)>>
      [] d = "async_futures" ->
           <<StartThread(1, "calc"), StartThread(2, "calc"),
             FutureGet(1), FutureGet(2),
             StartThread(3, "calc"), FutureGet(3), JoinThread(3),
             JoinThread(2), JoinThread(1)>>
      [] d = "thread_safe_queue" ->
           <<StartThread(1, "push_lock"), StartThread(2, "push_lock"),
             StartThread(3, "try_pop_lock"), StartThread(4, "try_pop_lock"),
             JoinThread(1), JoinThread(2), JoinThread(3), JoinThread(4)>>
      [] d = "reader_writer_lock" ->
           <<StartThread(1, "read_lock"), StartThread(2, "read_lock"),
             StartThread(3, "read_lock"), StartThread(4, "write_lock"),
             StartThread(5, "read_lock"), StartThread(6, "read_lock"),
             JoinThread(1), JoinThread(2), JoinThread(3), JoinThread(4),
             JoinThread(5), JoinThread(6)>>
      [] OTHER -> << >>

\* the demonstration run() calls after d
NextDemonstration(d) ==
    LET k == CHOOSE j \in 1..Len(Demonstrations) : Demonstrations[j] = d
    IN  IF k < Len(Demonstrations) THEN Demonstrations[k + 1] ELSE "done"

\* the "DONE" message of the producer
DONE == <<0, 0>>

\* the last value of i for which a producer pushes: the producer of the
\* condition-variable demonstration pushes "DONE" after its loop
LastPush(d) == IF d = "condition_variables" THEN MaxIter ELSE MaxIter - 1

\* the message thread t pushes at index k
Message(d, t, k) ==
    IF d = "condition_variables" /\ k = MaxIter THEN DONE ELSE <<t, k>>

\* the arguments of BankAccount::transfer in thread t
TransferArgs(t) ==
    IF t = 1
    THEN [from |-> "account_a", to |-> "account_b", amount |-> 200]
    ELSE [from |-> "account_b", to |-> "account_a", amount |-> 100]

Goto(t, p) == tpc' = [tpc EXCEPT ![t] = p]

\* i++ and the loop test i < n: back to `again`, or the function returns
LoopOrFinish(t, n, again) ==
    /\ ti' = [ti EXCEPT ![t] = ti[t] + 1]
    /\ Goto(t, IF ti[t] + 1 < n THEN again ELSE "finished")

\* variant of Lock that does not wait for the mutex to be free
LockWithoutWaiting(t, m) == owner' = [owner EXCEPT ![m] = t]

\* std::mutex::lock by thread t: blocks while another thread holds m
Lock(t, m) ==
    /\ owner[m] = Free
    /\ owner' = [owner EXCEPT ![m] = t]

Unlock(m) == owner' = [owner EXCEPT ![m] = Free]

\* the registry and main()
Idle ==
    /\ samples_ = << >>
    /\ calls = << >>
    /\ createLog = << >>
    /\ nextId = 0
    /\ pending = {}
    /\ pc = "test"
    /\ argv = << >>
    /\ samples = << >>
    /\ num = 0
    /\ out = << >>
    /\ loop_i = 0
    /\ ran = << >>
    /\ runOutcome = "none"
    /\ exitCode = -1
    /\ RuleInit

idleVars == <<samples_, calls, createLog, nextId, pending, pc, argv, samples,
              num, out, loop_i, ran, runOutcome, exitCode, ruleVars>>

InitThreads ==
    /\ Idle
    /\ demo = Demonstrations[1]
    /\ LocalsInit
    /\ CoroIdle
    /\ SafetyInit

\* the main thread is inside a demonstration, at step mi of its program
InDemonstration == demo \in Range(Demonstrations)

MainAt(o) ==
    /\ InDemonstration
    /\ mi <= Len(MainProgram(demo))
    /\ MainProgram(demo)[mi].op = o

\* std::thread t(f), emplace_back(f), std::async(std::launch::async, f)
MainStart ==
    /\ MainAt("start")
    /\ Goto(MainProgram(demo)[mi].t, MainProgram(demo)[mi].entry)
    /\ mi' = mi + 1
    /\ UNCHANGED <<demo, ti, tmp, lockVars, queueVars, dataVars>>
    /\ UNCHANGED <<idleVars, coroVars, safetyVars>>

\* t.join(): blocks until the thread's function has returned
MainJoin ==
    /\ MainAt("join")
    /\ tpc[MainProgram(demo)[mi].t] = "finished"
    /\ Goto(MainProgram(demo)[mi].t, "joined")
    /\ mi' = mi + 1
    /\ UNCHANGED <<demo, ti, tmp, lockVars, queueVars, dataVars>>
    /\ UNCHANGED <<idleVars, coroVars, safetyVars>>

\* future.get(): blocks until the task has stored its result
MainGet ==
    /\ MainAt("get")
    /\ tpc[MainProgram(demo)[mi].t] \in {"ready", "finished"}
    /\ mi' = mi + 1
    /\ UNCHANGED <<demo, tpc, ti, tmp, lockVars, queueVars, dataVars>>
    /\ UNCHANGED <<idleVars, coroVars, safetyVars>>

\* the demonstration returns and run() calls the next one; the destructor of
\* a std::thread that is still joinable calls std::terminate
MainReturnFromDemo ==
    /\ InDemonstration
    /\ mi > Len(MainProgram(demo))
    /\ demo' = IF \A t \in Threads : tpc[t] \in {"none", "joined"}
               THEN NextDemonstration(demo)
               ELSE "terminated"
    /\ mi' = 1
    /\ tpc' = [t \in Threads |-> "none"]
    /\ ti' = [t \in Threads |-> 0]
    /\ tmp' = [t \in Threads |-> 0]
    /\ owner' = [m \in Mutexes |-> Free]
    /\ rw_lock' = [writer |-> Free, readers |-> {}]
    /\ queue_' = << >>
    /\ cv_waiting' = {}
    /\ spurious' = 0
    /\ counter' = 0
    /\ shared_data' = 0
    /\ readers_active' = 0
    /\ balance' = [account_a |-> 1000, account_b |-> 500]
    /\ UNCHANGED <<idleVars, coroVars, safetyVars>>

MainStep == MainStart \/ MainJoin \/ MainGet \/ MainReturnFromDemo

\* counter++ on a plain int shared without synchronization (a data race):
\* the load ...
RaceLoad(t) ==
    /\ tpc[t] = "load"
    /\ tmp' = [tmp EXCEPT ![t] = counter]
    /\ Goto(t, "store")
    /\ UNCHANGED <<ctlVars, ti, lockVars, queueVars, dataVars>>
    /\ UNCHANGED <<idleVars, coroVars, safetyVars>>

\* variant of RaceStore for an increment that is one indivisible
\* read-modify-write
RaceStoreAtomic(t) ==
    /\ tpc[t] = "store"
    /\ counter' = counter + 1
    /\ LoopOrFinish(t, MaxIter, "load")
    /\ UNCHANGED <<ctlVars, tmp, lockVars, queueVars, shared_data,
                   readers_active, balance>>
    /\ UNCHANGED <<idleVars, coroVars, safetyVars>>

\* ... and the store of the incremented value, which may overwrite what the
\* other thread stored in between
RaceStore(t) ==
    /\ tpc[t] = "store"
    /\ counter' = tmp[t] + 1
    /\ LoopOrFinish(t, MaxIter, "load")
    /\ UNCHANGED <<ctlVars, tmp, lockVars, queueVars, shared_data,
                   readers_active, balance>>
    /\ UNCHANGED <<idleVars, coroVars, safetyVars>>

\* std::lock_guard<std::mutex> lock(counter_mutex);
LockCounter(t) ==
    /\ tpc[t] = "lock_counter"
    /\ Lock(t, "counter_mutex")
    /\ Goto(t, "locked_load")
    /\ UNCHANGED <<ctlVars, ti, tmp, rw_lock, queueVars, dataVars>>
    /\ UNCHANGED <<idleVars, coroVars, safetyVars>>

\* counter++ on the plain int, with the mutex held: the load ...
SafeLoad(t) ==
    /\ tpc[t] = "locked_load"
    /\ tmp' = [tmp EXCEPT ![t] = counter]
    /\ Goto(t, "locked_store")
    /\ UNCHANGED <<ctlVars, ti, lockVars, queueVars, dataVars>>
    /\ UNCHANGED <<idleVars, coroVars, safetyVars>>

\* ... and the store; then the lock_guard goes out of scope
SafeIncrement(t) ==
    /\ tpc[t] = "locked_store"
    /\ counter' = tmp[t] + 1
    /\ Unlock("counter_mutex")
    /\ LoopOrFinish(t, MaxIter, "lock_counter")
    /\ UNCHANGED <<ctlVars, tmp, rw_lock, queueVars, shared_data,
                   readers_active, balance>>
    /\ UNCHANGED <<idleVars, coroVars, safetyVars>>

\* counter++ on std::atomic<int>
AtomicIncrement(t) ==
    /\ tpc[t] = "fetch_add"
    /\ counter' = counter + 1
    /\ LoopOrFinish(t, MaxIter, "fetch_add")
    /\ UNCHANGED <<ctlVars, tmp, lockVars, queueVars, shared_data,
                   readers_active, balance>>
    /\ UNCHANGED <<idleVars, coroVars, safetyVars>>

\* std::lock_guard<std::mutex> lock_a(mutex_a);
LockA(t) ==
    /\ tpc[t] = "lock_a"
    /\ Lock(t, "mutex_a")
    /\ Goto(t, "lock_b")
    /\ UNCHANGED <<ctlVars, ti, tmp, rw_lock, queueVars, dataVars>>
    /\ UNCHANGED <<idleVars, coroVars, safetyVars>>

\* std::lock_guard<std::mutex> lock_b(mutex_b);
LockB(t) ==
    /\ tpc[t] = "lock_b"
    /\ Lock(t, "mutex_b")
    /\ Goto(t, "shared_data")
    /\ UNCHANGED <<ctlVars, ti, tmp, rw_lock, queueVars, dataVars>>
    /\ UNCHANGED <<idleVars, coroVars, safetyVars>>

\* shared_data++; then lock_b and lock_a go out of scope
SafeFunction(t) ==
    /\ tpc[t] = "shared_data"
    /\ shared_data' = shared_data + 1
    /\ owner' = [owner EXCEPT !["mutex_b"] = Free, !["mutex_a"] = Free]
    /\ Goto(t, "finished")
    /\ UNCHANGED <<ctlVars, ti, tmp, rw_lock, queueVars, counter,
                   readers_active, balance>>
    /\ UNCHANGED <<idleVars, coroVars, safetyVars>>

\* variant of scoped_lock that locks its arguments one after the other, in
\* the order they are given (two lock_guards)
lock_guards_in_order(t, m1, m2) ==
    IF owner[m1] # t
    THEN /\ Lock(t, m1)
         /\ UNCHANGED tpc
    ELSE /\ Lock(t, m2)
         /\ Goto(t, "transfer_body")

\* std::scoped_lock lock(from.mutex_, to.mutex_): "locks both atomically";
\* the thread blocks only while it holds neither mutex, and goes on when it
\* holds both
scoped_lock(t, m1, m2) ==
    /\ owner[m1] = Free
    /\ owner[m2] = Free
    /\ owner' = [owner EXCEPT ![m1] = t, ![m2] = t]
    /\ Goto(t, "transfer_body")

TransferLock(t) ==
    /\ tpc[t] = "transfer"
    /\ scoped_lock(t, TransferArgs(t).from, TransferArgs(t).to)
    /\ UNCHANGED <<ctlVars, ti, tmp, rw_lock, queueVars, dataVars>>
    /\ UNCHANGED <<idleVars, coroVars, safetyVars>>

\* the body of BankAccount::transfer; then the scoped_lock goes out of scope
TransferBody(t) ==
    /\ tpc[t] = "transfer_body"
    /\ LET from == TransferArgs(t).from
           to == TransferArgs(t).to
           amount == TransferArgs(t).amount
       IN  /\ balance' = IF balance[from] >= amount
                         THEN [balance EXCEPT ![from] = balance[from] - amount,
                                              ![to] = balance[to] + amount]
                         ELSE balance
           /\ owner' = [owner EXCEPT ![from] = Free, ![to] = Free]
    /\ Goto(t, "finished")
    /\ UNCHANGED <<ctlVars, ti, tmp, rw_lock, queueVars, counter, shared_data,
                   readers_active>>
    /\ UNCHANGED <<idleVars, coroVars, safetyVars>>

\* ThreadSafeQueue::push: std::lock_guard<std::mutex> lock(mutex_);
PushLock(t) ==
    /\ tpc[t] = "push_lock"
    /\ Lock(t, "queue")
    /\ Goto(t, "push")
    /\ UNCHANGED <<ctlVars, ti, tmp, rw_lock, queueVars, dataVars>>
    /\ UNCHANGED <<idleVars, coroVars, safetyVars>>

\* queue_.push(std::move(value)); then the lock_guard goes out of scope
Push(t) ==
    /\ tpc[t] = "push"
    /\ queue_' = Append(queue_, Message(demo, t, ti[t]))
    /\ Unlock("queue")
    /\ Goto(t, "notify")
    /\ UNCHANGED <<ctlVars, ti, tmp, rw_lock, cv_waiting, spurious, dataVars>>
    /\ UNCHANGED <<idleVars, coroVars, safetyVars>>

\* cv_.notify_one(), after the mutex was released: one of the threads blocked
\* in cv_ is woken, if there is one; then the producer's loop goes on
NotifyOne(t) ==
    /\ tpc[t] = "notify"
    /\ \E w \in cv_waiting \cup {0} :
          /\ w = 0 <=> cv_waiting = {}
          /\ cv_waiting' = cv_waiting \ {w}
    /\ LoopOrFinish(t, LastPush(demo) + 1, "push_lock")
    /\ UNCHANGED <<ctlVars, tmp, lockVars, queue_, spurious, dataVars>>
    /\ UNCHANGED <<idleVars, coroVars, safetyVars>>

\* ThreadSafeQueue::pop: std::unique_lock<std::mutex> lock(mutex_), and the
\* lock taken again by cv_.wait after a wake-up
PopLock(t) ==
    /\ tpc[t] = "pop_lock"
    /\ Lock(t, "queue")
    /\ Goto(t, "pop_check")
    /\ UNCHANGED <<ctlVars, ti, tmp, rw_lock, queueVars, dataVars>>
    /\ UNCHANGED <<idleVars, coroVars, safetyVars>>

\* cv_.wait(lock, pred) with the predicate false: the mutex is released and
\* the thread blocks in cv_, in one step
PopWait(t) ==
    /\ tpc[t] = "pop_check"
    /\ queue_ = << >>
    /\ Unlock("queue")
    /\ cv_waiting' = cv_waiting \cup {t}
    /\ Goto(t, "cv_wait")
    /\ UNCHANGED <<ctlVars, ti, tmp, rw_lock, queue_, spurious, dataVars>>
    /\ UNCHANGED <<idleVars, coroVars, safetyVars>>

\* the predicate is true: front() is taken, the lock released, and the
\* consumer's loop ends on "DONE"
Pop(t) ==
    /\ tpc[t] = "pop_check"
    /\ queue_ # << >>
    /\ queue_' = Tail(queue_)
    /\ Unlock("queue")
    /\ Goto(t, IF Head(queue_) = DONE THEN "finished" ELSE "pop_lock")
    /\ UNCHANGED <<ctlVars, ti, tmp, rw_lock, cv_waiting, spurious, dataVars>>
    /\ UNCHANGED <<idleVars, coroVars, safetyVars>>

\* a thread that was notified leaves cv_ and goes to take the mutex again
Wake(t) ==
    /\ tpc[t] = "cv_wait"
    /\ t \notin cv_waiting
    /\ Goto(t, "pop_lock")
    /\ UNCHANGED <<ctlVars, ti, tmp, lockVars, queueVars, dataVars>>
    /\ UNCHANGED <<idleVars, coroVars, safetyVars>>

\* a condition variable may wake a thread that nobody notified
SpuriousWake(t) ==
    /\ tpc[t] = "cv_wait"
    /\ t \in cv_waiting
    /\ spurious < MaxSpurious
    /\ cv_waiting' = cv_waiting \ {t}
    /\ spurious' = spurious + 1
    /\ Goto(t, "pop_lock")
    /\ UNCHANGED <<ctlVars, ti, tmp, lockVars, queue_, dataVars>>
    /\ UNCHANGED <<idleVars, coroVars, safetyVars>>

\* ThreadSafeQueue::try_pop: std::lock_guard<std::mutex> lock(mutex_);
TryPopLock(t) ==
    /\ tpc[t] = "try_pop_lock"
    /\ Lock(t, "queue")
    /\ Goto(t, "try_pop")
    /\ UNCHANGED <<ctlVars, ti, tmp, rw_lock, queueVars, dataVars>>
    /\ UNCHANGED <<idleVars, coroVars, safetyVars>>

\* the body of try_pop: front() is taken if there is one; the lock_guard
\* goes out of scope; then the consumer's loop goes on
TryPop(t) ==
    /\ tpc[t] = "try_pop"
    /\ queue_' = IF queue_ = << >> THEN queue_ ELSE Tail(queue_)
    /\ Unlock("queue")
    /\ LoopOrFinish(t, MaxIter, "try_pop_lock")
    /\ UNCHANGED <<ctlVars, tmp, rw_lock, cv_waiting, spurious, dataVars>>
    /\ UNCHANGED <<idleVars, coroVars, safetyVars>>

\* rw_lock.read_lock(): mutex_.lock_shared() blocks while a writer holds it
ReadLock(t) ==
    /\ tpc[t] = "read_lock"
    /\ rw_lock.writer = Free
    /\ rw_lock' = [rw_lock EXCEPT !.readers = @ \cup {t}]
    /\ Goto(t, "reader_enter")
    /\ UNCHANGED <<ctlVars, ti, tmp, owner, queueVars, dataVars>>
    /\ UNCHANGED <<idleVars, coroVars, safetyVars>>

\* readers_active++;
ReaderEnter(t) ==
    /\ tpc[t] = "reader_enter"
    /\ readers_active' = readers_active + 1
    /\ Goto(t, "reader_leave")
    /\ UNCHANGED <<ctlVars, ti, tmp, lockVars, queueVars, counter, shared_data,
                   balance>>
    /\ UNCHANGED <<idleVars, coroVars, safetyVars>>

\* readers_active--;
ReaderLeave(t) ==
    /\ tpc[t] = "reader_leave"
    /\ readers_active' = readers_active - 1
    /\ Goto(t, "read_unlock")
    /\ UNCHANGED <<ctlVars, ti, tmp, lockVars, queueVars, counter, shared_data,
                   balance>>
    /\ UNCHANGED <<idleVars, coroVars, safetyVars>>

\* rw_lock.read_unlock();
ReadUnlock(t) ==
    /\ tpc[t] = "read_unlock"
    /\ rw_lock' = [rw_lock EXCEPT !.readers = @ \ {t}]
    /\ Goto(t, "finished")
    /\ UNCHANGED <<ctlVars, ti, tmp, owner, queueVars, dataVars>>
    /\ UNCHANGED <<idleVars, coroVars, safetyVars>>

\* rw_lock.write_lock(): mutex_.lock() blocks while a writer or a reader
\* holds it
WriteLock(t) ==
    /\ tpc[t] = "write_lock"
    /\ rw_lock.writer = Free
    /\ rw_lock.readers = {}
    /\ rw_lock' = [rw_lock EXCEPT !.writer = t]
    /\ Goto(t, "write")
    /\ UNCHANGED <<ctlVars, ti, tmp, owner, queueVars, dataVars>>
    /\ UNCHANGED <<idleVars, coroVars, safetyVars>>

\* shared_data++;
Write(t) ==
    /\ tpc[t] = "write"
    /\ shared_data' = shared_data + 1
    /\ Goto(t, "write_unlock")
    /\ UNCHANGED <<ctlVars, ti, tmp, lockVars, queueVars, counter,
                   readers_active, balance>>
    /\ UNCHANGED <<idleVars, coroVars, safetyVars>>

\* rw_lock.write_unlock();
WriteUnlock(t) ==
    /\ tpc[t] = "write_unlock"
    /\ rw_lock' = [rw_lock EXCEPT !.writer = Free]
    /\ Goto(t, "finished")
    /\ UNCHANGED <<ctlVars, ti, tmp, owner, queueVars, dataVars>>
    /\ UNCHANGED <<idleVars, coroVars, safetyVars>>

\* expensive_calculation returns x * x and the result is stored in the
\* shared state of the future
Calculate(t) ==
    /\ tpc[t] = "calc"
    /\ Goto(t, "ready")
    /\ UNCHANGED <<ctlVars, ti, tmp, lockVars, queueVars, dataVars>>
    /\ UNCHANGED <<idleVars, coroVars, safetyVars>>

\* the thread that ran the task ends
TaskThreadEnds(t) ==
    /\ tpc[t] = "ready"
    /\ Goto(t, "finished")
    /\ UNCHANGED <<ctlVars, ti, tmp, lockVars, queueVars, dataVars>>
    /\ UNCHANGED <<idleVars, coroVars, safetyVars>>

\* a step of thread t other than a spurious wake-up
ThreadStep(t) ==
    \/ RaceLoad(t) \/ RaceStore(t)
    \/ LockCounter(t) \/ SafeLoad(t) \/ SafeIncrement(t)
    \/ AtomicIncrement(t)
    \/ LockA(t) \/ LockB(t) \/ SafeFunction(t)
    \/ TransferLock(t) \/ TransferBody(t)
    \/ PushLock(t) \/ Push(t) \/ NotifyOne(t)
    \/ PopLock(t) \/ PopWait(t) \/ Pop(t) \/ Wake(t)
    \/ TryPopLock(t) \/ TryPop(t)
    \/ ReadLock(t) \/ ReaderEnter(t) \/ ReaderLeave(t) \/ ReadUnlock(t)
    \/ WriteLock(t) \/ Write(t) \/ WriteUnlock(t)
    \/ Calculate(t) \/ TaskThreadEnds(t)

NextThreads ==
    \/ MainStep
    \/ \E t \in Threads : ThreadStep(t)
    \/ \E t \in Threads : SpuriousWake(t)

\* the scheduler runs every thread that stays able to take a step; nothing
\* is assumed about spurious wake-ups
FairThreads ==
    /\ WF_vars(MainStep)
    /\ \A t \in Threads : WF_vars(ThreadStep(t))

SpecThreads == InitThreads /\ [][NextThreads]_vars /\ FairThreads

----------------------------------------------------------------------------
(* SpecCoro: demonstrate_awaitables() and the coroutine demonstrate_awaitable *)

\* values for SimulatedDelay::milliseconds: those of the source (100, 50)
\* and values on both sides of await_ready's test
DelayChoices == {-50, 0, 1, 50, 100}

AfterFirstLine == Line("    After first delay", 0, "")
AfterSecondLine == Line("    After second delay", 0, "")
TaskCompletedLine == Line("Task completed", 0, "")

\* SimulatedDelay::await_ready
await_ready(milliseconds) == milliseconds <= 0

\* Task<void>::done(): handle_.done(), true when the coroutine is suspended
\* at its final suspend point
done(c) == c = "final_suspend"

InitCoro ==
    /\ Idle
    /\ ThreadsIdle
    /\ SafetyInit
    /\ delays \in DelayChoices \X DelayChoices
    /\ coPc = "not_created"
    /\ callerPc = "call"
    /\ coOut = << >>

\* auto task = demonstrate_awaitable(): the frame is created,
\* get_return_object() makes the Task, initial_suspend() is suspend_never, so
\* the body starts in the caller's call and prints its first line
CallCoroutine ==
    /\ callerPc = "call"
    /\ coPc = "not_created"
    /\ coOut' = Append(coOut,
           Line("    Starting awaitable demonstration...", 0, ""))
    /\ coPc' = "await_1"
    /\ callerPc' = "in_call"
    /\ UNCHANGED delays
    /\ UNCHANGED <<idleVars, threadVars, safetyVars>>

\* co_await SimulatedDelay{delays[k]}: when await_ready() is true the
\* coroutine goes on and prints the line after the delay; otherwise
\* await_suspend prints, returns void, the coroutine stays suspended and
\* control returns to the caller
CoAwait(k) ==
    /\ coPc = IF k = 1 THEN "await_1" ELSE "await_2"
    /\ IF await_ready(delays[k])
       THEN /\ coOut' = Append(coOut, IF k = 1 THEN AfterFirstLine ELSE AfterSecondLine)
            /\ coPc' = IF k = 1 THEN "await_2" ELSE "co_return"
            /\ UNCHANGED callerPc
       ELSE /\ coOut' = Append(coOut,
                   Line("    Simulating <n>ms delay...", delays[k], ""))
            /\ coPc' = IF k = 1 THEN "suspended_1" ELSE "suspended_2"
            /\ callerPc' = "print"
    /\ UNCHANGED delays
    /\ UNCHANGED <<idleVars, threadVars, safetyVars>>

\* co_return: return_void(), then final_suspend() is suspend_always and
\* control returns to the caller
CoReturn ==
    /\ coPc = "co_return"
    /\ coPc' = "final_suspend"
    /\ callerPc' = "print"
    /\ UNCHANGED <<delays, coOut>>
    /\ UNCHANGED <<idleVars, threadVars, safetyVars>>

\* std::cout << "Task completed"
PrintCompleted ==
    /\ callerPc = "print"
    /\ coOut' = Append(coOut, TaskCompletedLine)
    /\ callerPc' = "destroy"
    /\ UNCHANGED <<delays, coPc>>
    /\ UNCHANGED <<idleVars, threadVars, safetyVars>>

\* task goes out of scope: ~Task() destroys the coroutine frame
DestroyTask ==
    /\ callerPc = "destroy"
    /\ coPc' = "destroyed"
    /\ callerPc' = "returned"
    /\ UNCHANGED <<delays, coOut>>
    /\ UNCHANGED <<idleVars, threadVars, safetyVars>>

NextCoro ==
    \/ CallCoroutine
    \/ \E k \in 1..2 : CoAwait(k)
    \/ CoReturn
    \/ PrintCompleted
    \/ DestroyTask

SpecCoro == InitCoro /\ [][NextCoro]_vars

----------------------------------------------------------------------------
(* SpecSafety: ExceptionSafetyLevels and the SafetyResource objects *)

ResourceNames == {"StrongTest", "FailStrong", "NoThrowTest"}

\* the heap of SafetyResource objects: the use count of each live object
\* and the static instance counter
Heap(use, instances) == [use |-> use, instances |-> instances]

\* std::make_shared<SafetyResource>(name): the constructor increments
\* instance_count_, one shared_ptr owns the object
make_shared(H, id) ==
    Heap([x \in (DOMAIN H.use) \cup {id} |-> IF x = id THEN 1 ELSE H.use[x]],
         H.instances + 1)

\* copy of a shared_ptr
CopyPtr(H, id) == Heap([H.use EXCEPT ![id] = @ + 1], H.instances)

\* destruction of a shared_ptr: the last owner destroys the object, whose
\* destructor decrements instance_count_
DropPtr(H, id) ==
    IF H.use[id] = 1
    THEN Heap([x \in (DOMAIN H.use) \ {id} |-> H.use[x]], H.instances - 1)
    ELSE Heap([H.use EXCEPT ![id] = @ - 1], H.instances)

\* copy construction of a vector of shared_ptr
RECURSIVE CopyVector(_, _)
CopyVector(H, v) ==
    IF v = << >> THEN H ELSE CopyVector(CopyPtr(H, Head(v).id), Tail(v))

\* destruction of a vector of shared_ptr
RECURSIVE DestroyVector(_, _)
DestroyVector(H, v) ==
    IF v = << >> THEN H ELSE DestroyVector(DropPtr(H, Head(v).id), Tail(v))

Resource(id, name) == [id |-> id, name |-> name]

AddResult(resources, H, outcome) ==
    [resources |-> resources, heap |-> H, outcome |-> outcome]

\* variant of add_resource_strong_guarantee that works on resources_ itself
\* instead of a copy
add_resource_strong_in_place(R, H, name, id) ==
    LET H1 == make_shared(H, id)
        R1 == Append(R, Resource(id, name))
    IN  IF name = "FailStrong"
        THEN AddResult(R1, H1, "threw")
        ELSE AddResult(R1, H1, "returned")

\* add_resource_strong_guarantee: copy resources_, push the new resource on
\* the copy; on "FailStrong" throw, and unwinding destroys the copy;
\* otherwise move the copy into resources_, whose old elements are destroyed
add_resource_strong_guarantee(R, H, name, id) ==
    LET H1 == CopyVector(H, R)
        H2 == make_shared(H1, id)
        temp_resources == Append(R, Resource(id, name))
    IN  IF name = "FailStrong"
        THEN AddResult(R, DestroyVector(H2, temp_resources), "threw")
        ELSE AddResult(temp_resources, DestroyVector(H2, R), "returned")

\* add_resource_basic_guarantee: the resource is pushed on resources_ (a
\* second owner), the function throws, the local shared_ptr is destroyed
add_resource_basic_guarantee(R, H, name, id) ==
    LET H1 == make_shared(H, id)
        H2 == CopyPtr(H1, id)
    IN  AddResult(Append(R, Resource(id, name)), DropPtr(H2, id), "threw")

\* add_resource_no_guarantee: push_back of the temporary, then throw
add_resource_no_guarantee(R, H, name, id) ==
    AddResult(Append(R, Resource(id, name)), make_shared(H, id), "threw")

\* add_resource_no_throw: push_back inside try/catch (...)
add_resource_no_throw(R, H, name, id) ==
    AddResult(Append(R, Resource(id, name)), make_shared(H, id), "returned")

InitSafety ==
    /\ Idle
    /\ ThreadsIdle
    /\ CoroIdle
    /\ SafetyInit

\* one call levels.add_resource_<op>(name), the exception it may throw
\* caught by the caller; r is what the call did
AddResource(op, name, r) ==
    /\ Len(addLog) < MaxAdds
    /\ resources_' = r.resources
    /\ use_count' = r.heap.use
    /\ instance_count_' = r.heap.instances
    /\ addLog' = Append(addLog, [op |-> op, name |-> name, outcome |-> r.outcome])
    /\ UNCHANGED <<idleVars, threadVars, coroVars, txVars>>

\* the object the next make_shared creates
NewId == Len(addLog) + 1

AddResourceStrong(name) ==
    AddResource("strong", name,
        add_resource_strong_guarantee(resources_, Heap(use_count, instance_count_),
                                      name, NewId))

AddResourceBasic(name) ==
    AddResource("basic", name,
        add_resource_basic_guarantee(resources_, Heap(use_count, instance_count_),
                                     name, NewId))

AddResourceNoGuarantee(name) ==
    AddResource("none", name,
        add_resource_no_guarantee(resources_, Heap(use_count, instance_count_),
                                  name, NewId))

AddResourceNoThrow(name) ==
    AddResource("nothrow", name,
        add_resource_no_throw(resources_, Heap(use_count, instance_count_),
                              name, NewId))

NextSafety ==
    \/ \E name \in ResourceNames : AddResourceStrong(name)
    \/ \E name \in ResourceNames : AddResourceBasic(name)
    \/ \E name \in ResourceNames : AddResourceNoGuarantee(name)
    \/ \E name \in ResourceNames : AddResourceNoThrow(name)

SpecSafety == InitSafety /\ [][NextSafety]_vars

----------------------------------------------------------------------------
(* SpecTx: one Transaction, from its declaration to its destruction *)

\* what a rollback action does when invoked: its name stands for its effect,
\* throws says whether the invocation ends in an exception
RollbackActions == [name : {"A", "B"}, throws : BOOLEAN]

\* variant of RunRollbacks without the catch (...): the first exception
\* ends the loop
RECURSIVE RunRollbacksUncaught(_, _, _)
RunRollbacksUncaught(R, k, log) ==
    IF k = 0
    THEN log
    ELSE LET line == [index |-> k, name |-> R[k].name, threw |-> R[k].throws]
         IN  IF R[k].throws
             THEN Append(log, line)
             ELSE RunRollbacksUncaught(R, k - 1, Append(log, line))

\* the loop of ~Transaction from rbegin() to rend(), it standing at R[k]:
\* the action is invoked inside try, what it throws is caught and the loop
\* goes on
RECURSIVE RunRollbacks(_, _, _)
RunRollbacks(R, k, log) ==
    IF k = 0
    THEN log
    ELSE RunRollbacks(R, k - 1,
             Append(log, [index |-> k, name |-> R[k].name,
                          threw |-> R[k].throws]))

\* tx.add_rollback(action)
add_rollback(action) ==
    /\ ~destroyed
    /\ Len(rollbacks_) < MaxRollbacks
    /\ rollbacks_' = Append(rollbacks_, action)
    /\ UNCHANGED <<committed_, destroyed, executed>>
    /\ UNCHANGED <<idleVars, threadVars, coroVars, resources_, use_count,
                   instance_count_, addLog>>

\* tx.commit()
commit ==
    /\ ~destroyed
    /\ committed_' = TRUE
    /\ UNCHANGED <<rollbacks_, destroyed, executed>>
    /\ UNCHANGED <<idleVars, threadVars, coroVars, resources_, use_count,
                   instance_count_, addLog>>

\* ~Transaction, at the end of the scope or while an exception unwinds it;
\* rollbacks_ keeps the value the destructor found
DestroyTransaction ==
    /\ ~destroyed
    /\ destroyed' = TRUE
    /\ executed' = IF ~committed_
                   THEN RunRollbacks(rollbacks_, Len(rollbacks_), << >>)
                   ELSE << >>
    /\ UNCHANGED <<rollbacks_, committed_>>
    /\ UNCHANGED <<idleVars, threadVars, coroVars, resources_, use_count,
                   instance_count_, addLog>>

NextTx ==
    \/ \E action \in RollbackActions : add_rollback(action)
    \/ commit
    \/ DestroyTransaction

SpecTx == InitSafety /\ [][NextTx]_vars

----------------------------------------------------------------------------
(* SpecRule: HeapResource and ProperResource objects under arbitrary       *)
(* construction, copy, move, assignment, use and destruction.  The values  *)
(* the buffers hold are left out; what is kept is which buffer each object *)
(* points to, which buffers were deleted, and whether an operation read or *)
(* wrote through a null or deleted pointer (the program stops there).      *)

\* what a member function that reads or writes n elements of y.data_ does
\* to memory: HeapResource guards every access by size_ (index < size_,
\* memcpy of size_ bytes), ProperResource dereferences data_
Access(y, n) ==
    IF y.cls = "HeapResource" /\ n = 0 THEN "none"
    ELSE IF y.data_ = nullptr THEN "null access"
    ELSE IF freed[y.data_] > 0 THEN "freed access"
    ELSE "none"

\* delete p / delete[] p
Delete(p) == IF p = nullptr THEN freed ELSE [freed EXCEPT ![p] = @ + 1]

\* explicit HeapResource(size_t size) / explicit ProperResource(int value);
\* ProperResource has no size_ member (0 in the model)
Construct(o, cls, size) ==
    /\ fault = "none"
    /\ objects[o].state = "none"
    /\ allocated < MaxBuffers
    /\ allocated' = allocated + 1
    /\ objects' = [objects EXCEPT ![o] =
           [state |-> "live", cls |-> cls, data_ |-> allocated + 1,
            size_ |-> size]]
    /\ UNCHANGED <<freed, fault>>
    /\ UNCHANGED <<registryVars, pending, mainVars, threadVars, coroVars,
                   safetyVars>>

\* the copy constructor: a new buffer, filled from other's
CopyConstruct(o, other) ==
    /\ fault = "none"
    /\ objects[o].state = "none"
    /\ objects[other].state = "live"
    /\ allocated < MaxBuffers
    /\ allocated' = allocated + 1
    /\ fault' = Access(objects[other], objects[other].size_)
    /\ objects' = IF fault' = "none"
                  THEN [objects EXCEPT ![o] =
                           [objects[other] EXCEPT !.data_ = allocated + 1]]
                  ELSE objects
    /\ UNCHANGED freed
    /\ UNCHANGED <<registryVars, pending, mainVars, threadVars, coroVars,
                   safetyVars>>

\* the copy assignment operator: nothing on self-assignment; otherwise the
\* old buffer is deleted and a new one is filled from other's
CopyAssign(o, other) ==
    /\ fault = "none"
    /\ objects[o].state = "live"
    /\ objects[other].state = "live"
    /\ objects[o].cls = objects[other].cls
    /\ IF o = other
       THEN UNCHANGED <<objects, allocated, freed, fault>>
       ELSE /\ allocated < MaxBuffers
            /\ freed' = Delete(objects[o].data_)
            /\ allocated' = allocated + 1
            /\ fault' = Access(objects[other], objects[other].size_)
            /\ objects' = IF fault' = "none"
                          THEN [objects EXCEPT ![o] =
                                  [objects[other] EXCEPT !.data_ = allocated + 1]]
                          ELSE objects
    /\ UNCHANGED <<registryVars, pending, mainVars, threadVars, coroVars,
                   safetyVars>>

\* variant of MoveConstruct that leaves other.data_ as it was
MoveConstructShallow(o, other) ==
    /\ fault = "none"
    /\ objects[o].state = "none"
    /\ objects[other].state = "live"
    /\ objects' = [objects EXCEPT ![o] = objects[other]]
    /\ UNCHANGED <<allocated, freed, fault>>
    /\ UNCHANGED <<registryVars, pending, mainVars, threadVars, coroVars,
                   safetyVars>>

\* the move constructor: takes other's buffer and leaves other with
\* nullptr (and size_ 0)
MoveConstruct(o, other) ==
    /\ fault = "none"
    /\ objects[o].state = "none"
    /\ objects[other].state = "live"
    /\ objects' = [objects EXCEPT
           ![o] = objects[other],
           ![other] = [@ EXCEPT !.data_ = nullptr, !.size_ = 0]]
    /\ UNCHANGED <<allocated, freed, fault>>
    /\ UNCHANGED <<registryVars, pending, mainVars, threadVars, coroVars,
                   safetyVars>>

\* the move assignment operator: nothing on self-assignment; otherwise the
\* old buffer is deleted and other's is taken
MoveAssign(o, other) ==
    /\ fault = "none"
    /\ objects[o].state = "live"
    /\ objects[other].state = "live"
    /\ objects[o].cls = objects[other].cls
    /\ IF o = other
       THEN UNCHANGED <<objects, freed>>
       ELSE /\ freed' = Delete(objects[o].data_)
            /\ objects' = [objects EXCEPT
                   ![o] = objects[other],
                   ![other] = [@ EXCEPT !.data_ = nullptr, !.size_ = 0]]
    /\ UNCHANGED <<allocated, fault>>
    /\ UNCHANGED <<registryVars, pending, mainVars, threadVars, coroVars,
                   safetyVars>>

\* the destructor
Destroy(o) ==
    /\ fault = "none"
    /\ objects[o].state = "live"
    /\ freed' = Delete(objects[o].data_)
    /\ objects' = [objects EXCEPT ![o] =
           [state |-> "destroyed", cls |-> "", data_ |-> nullptr, size_ |-> 0]]
    /\ UNCHANGED <<allocated, fault>>
    /\ UNCHANGED <<registryVars, pending, mainVars, threadVars, coroVars,
                   safetyVars>>

\* getData(index) / setData(index, value) of HeapResource, which touch
\* data_[index] only if index < size_; getValue() / setValue(value) of
\* ProperResource, which dereference data_
Use(o, index) ==
    /\ fault = "none"
    /\ objects[o].state = "live"
    /\ fault' = Access(objects[o], IF index < objects[o].size_ THEN 1 ELSE 0)
    /\ UNCHANGED <<objects, allocated, freed>>
    /\ UNCHANGED <<registryVars, pending, mainVars, threadVars, coroVars,
                   safetyVars>>

InitRule ==
    /\ Idle
    /\ ThreadsIdle
    /\ CoroIdle
    /\ SafetyInit

NextRule ==
    \/ \E o \in 1..MaxObjects, size \in {1, 2} :
          Construct(o, "HeapResource", size)
    \/ \E o \in 1..MaxObjects : Construct(o, "ProperResource", 0)
    \/ \E o, other \in 1..MaxObjects : CopyConstruct(o, other)
    \/ \E o, other \in 1..MaxObjects : CopyAssign(o, other)
    \/ \E o, other \in 1..MaxObjects : MoveConstruct(o, other)
    \/ \E o, other \in 1..MaxObjects : MoveAssign(o, other)
    \/ \E o \in 1..MaxObjects : Destroy(o)
    \/ \E o \in 1..MaxObjects, index \in 0..1 : Use(o, index)

SpecRule == InitRule /\ [][NextRule]_vars

----------------------------------------------------------------------------
(* Properties of the registry (Spec) *)

Max(S) == CHOOSE x \in S : \A y \in S : x >= y

\* the registerSample calls that preceded the createAll call logged as e
CallsBefore(e) == SubSeq(calls, 1, e.ncalls)

OrdersOf(H) == {H[i].order : i \in 1..Len(H)}

DistinctOrders(H) == \A i, j \in 1..Len(H) : i # j => H[i].order # H[j].order

\* the most recent call of H that used order key k
LastCall(H, k) == H[Max({i \in 1..Len(H) : H[i].order = k})]

StrictlyAscending(s) == \A i \in 1..(Len(s) - 1) : s[i] < s[i + 1]

Returned == {i \in 1..Len(createLog) : createLog[i].outcome = "returned"}

IdsOf(r) == {r[i].id : i \in 1..Len(r)}

\* C1: after registrations with pairwise distinct order keys, made in any
\* order, createAll returns one instance per registered key, the instances
\* are in strictly ascending order of their keys, and the instance at each
\* position is the product of the factory registered under that key (so the
\* result is a function of the set of registrations, not of their order).
C1_AscendingByKey ==
    \A c \in Returned :
        LET e == createLog[c]
            H == CallsBefore(e)
        IN  DistinctOrders(H) =>
              /\ Len(e.result) = Len(H)
              /\ Len(e.keys) = Len(H)
              /\ Range(e.keys) = OrdersOf(H)
              /\ StrictlyAscending(e.keys)
              /\ \A i \in 1..Len(e.result) :
                    \E h \in 1..Len(H) :
                        /\ H[h].order = e.keys[i]
                        /\ e.result[i].cls = H[h].factory

\* C1 witness: keys registered out of order (a larger key first), with two
\* different factories, then a createAll that returned both
C1_Witness ==
    \E c \in Returned :
        LET H == CallsBefore(createLog[c])
        IN  /\ DistinctOrders(H)
            /\ Len(H) >= 2
            /\ H[1].order > H[2].order
            /\ H[1].factory # H[2].factory

\* C2: a second registerSample with the same key replaces the entry: the
\* registry holds, for each key ever used, exactly the name and factory of
\* the latest call with that key; count() is the number of distinct keys,
\* not the number of calls; and createAll invokes, for each key, only the
\* factory of the latest registration (an overwritten factory is never
\* invoked again).
C2_LastRegistrationWins ==
    /\ DOMAIN samples_ = OrdersOf(calls)
    /\ count(samples_) = Cardinality(OrdersOf(calls))
    /\ \A k \in DOMAIN samples_ :
          /\ samples_[k].name = LastCall(calls, k).name
          /\ samples_[k].factory = LastCall(calls, k).factory
    /\ \A c \in 1..Len(createLog) :
          LET e == createLog[c]
              H == CallsBefore(e)
          IN  /\ Len(e.invoked) = Len(e.keys)
              /\ \A i, j \in 1..Len(e.keys) : i # j => e.keys[i] # e.keys[j]
              /\ \A i \in 1..Len(e.keys) :
                    /\ e.keys[i] \in OrdersOf(H)
                    /\ e.invoked[i] = LastCall(H, e.keys[i]).factory

\* C2 witness: key k registered twice with different names and factories,
\* count() smaller than the number of calls, and a createAll that returned
\* after the second registration
C2_Witness ==
    /\ Len(calls) >= 2
    /\ calls[1].order = calls[2].order
    /\ calls[1].name # calls[2].name
    /\ calls[1].factory # calls[2].factory
    /\ count(samples_) < Len(calls)
    /\ \E c \in Returned : createLog[c].ncalls >= 2

\* C3: a createAll call that returns has invoked the factory of every
\* registered entry exactly once (N invocations for N entries, so 2N over
\* two calls with no registration between them); the instances it returns
\* are pairwise distinct objects, none of them is returned by another
\* createAll call, and the registry's entries hold a name and a factory
\* only (no instance).
C3_FreshInstancesPerCall ==
    /\ \A c \in Returned :
          LET e == createLog[c]
              N == Cardinality(OrdersOf(CallsBefore(e)))
          IN  /\ Len(e.invoked) = N
              /\ Len(e.result) = N
              /\ Range(e.keys) = OrdersOf(CallsBefore(e))
              /\ Cardinality(IdsOf(e.result)) = N
              /\ \A i \in 1..N : e.result[i].cls = e.invoked[i]
    /\ \A c, d \in Returned :
          /\ c # d => IdsOf(createLog[c].result) \cap IdsOf(createLog[d].result) = {}
          /\ createLog[c].ncalls = createLog[d].ncalls /\ c # d =>
                Len(createLog[c].invoked) + Len(createLog[d].invoked)
                    = 2 * Cardinality(OrdersOf(CallsBefore(createLog[c])))
    /\ \A k \in DOMAIN samples_ : DOMAIN samples_[k] = {"name", "factory"}

\* C3 witness: two createAll calls returned with no registration between
\* them, on a registry of at least two entries
C3_Witness ==
    \E c, d \in Returned :
        /\ c # d
        /\ createLog[c].ncalls = createLog[d].ncalls
        /\ Len(createLog[c].result) >= 2
        /\ Len(createLog[d].result) >= 2

----------------------------------------------------------------------------
(* Properties of static initialization (SpecInit) and of main (SpecCLI) *)

HasArg == Len(argv) >= 1

\* the argument parses to an integer
Parsed == HasArg /\ stoi(argv[1]).exc = "none"

ParsedNum == stoi(argv[1]).value

Terminal == pc \in {"exited", "aborted"}

\* the ascending-key list of the registry: what createAll() would return
RegistryList == createAll(samples_, 0)

\* the display name of the entry at 1-based rank k of the registry
RegistryNameAt(k) == samples_[createAllKeys(samples_)[k]].name

\* C4: with N = count() registered demonstrations, an argument that parses
\* to n with 1 <= n <= N makes main call run() on exactly one sample, the
\* one at rank n of the registry's ascending-key list.
C4_RunsNthRegistered ==
    (Terminal /\ Parsed /\ ParsedNum >= 1 /\ ParsedNum <= count(samples_)) =>
        /\ Len(ran) = 1
        /\ ran[1].cls = RegistryList[ParsedNum].cls

\* C5: after static initialization the registry holds an entry for every
\* demonstration module of the repository.
C5_EveryModuleRegistered ==
    pending = {} =>
        \A m \in DemoModules : \E k \in DOMAIN samples_ : samples_[k].factory = m

\* C6: an argument that parses to n with n < 1 or n > N prints the "Invalid
\* sample number" message and run() is called on no sample. N is taken both
\* as count() of the registry and as the size of main's own list; the
\* property is stated for every n outside either range.
C6_OutOfRangeRejected ==
    (Parsed /\ (\/ ParsedNum < 1
                \/ ParsedNum > count(samples_)
                \/ ParsedNum > Len(MainSamples))) =>
        /\ ran = << >>
        /\ pc \notin {"in_run", "catch", "aborted"}
        /\ pc \in {"return", "exited"} =>
              out = <<InvalidNumberLine(Len(MainSamples))>>
        /\ pc = "exited" => exitCode = 0

\* C6 witness: the run with argument str(N + 1), N = count(), has ended
C6_Witness ==
    /\ pc = "exited"
    /\ Parsed
    /\ ParsedNum = count(samples_) + 1
    /\ out = <<InvalidNumberLine(Len(MainSamples))>>

\* the argument is rejected: not a number, or a number outside 1..size
Rejected ==
    /\ HasArg
    /\ \/ stoi(argv[1]).exc # "none"
       \/ ParsedNum < 1
       \/ ParsedNum > Len(MainSamples)

\* C7 as stated: when the argument is rejected no sample object is
\* constructed during the run.
C7_NoConstructionWhenRejected ==
    Rejected => (samples = << >> /\ nextId = 0)

\* C7 amended: main constructs one object of each of the 14 classes of its
\* list before it looks at the argument, whatever the argument is; when the
\* argument is rejected, run() is called on none of them.
C7_ConstructsAllRunsNone ==
    /\ pc # "construct" =>
          /\ Len(samples) = 14
          /\ \A j, k \in 1..Len(samples) :
                j # k => /\ samples[j].id # samples[k].id
                         /\ samples[j].cls # samples[k].cls
          /\ \A k \in 1..Len(samples) : samples[k].cls \in DemoModules
    /\ Rejected => ran = << >>

\* C7 witness: a run with a rejected argument has ended with all 14 samples
\* constructed
C7_Witness ==
    /\ pc = "exited"
    /\ Rejected
    /\ Len(samples) = 14
    /\ nextId = 14

\* s has no integer prefix: after leading blanks and one optional sign the
\* first character is not a digit (stated on positions, independently of
\* the stoi operator)
NoIntegerPrefix(s) ==
    \E b \in 0..Len(s) :
        /\ \A k \in 1..b : s[k] = " "
        /\ LET p == IF b < Len(s) /\ s[b + 1] \in {"-", "+"} THEN b + 1 ELSE b
           IN  /\ b < Len(s) => s[b + 1] # " "
               /\ p < Len(s) => s[p + 1] \notin Digits

\* C8: an argument with no integer prefix (for example "abc") makes main
\* print the "Invalid argument" message and nothing else, run() is called
\* on no sample, the process is never aborted, it can always take its next
\* step until it has exited, and it exits with code 0.
C8_NonNumericRejected ==
    (HasArg /\ NoIntegerPrefix(argv[1])) =>
        /\ ran = << >>
        /\ pc \notin {"check", "in_run", "aborted"}
        /\ pc = "return" => out = <<InvalidArgumentLine>>
        /\ pc = "exited" => (out = <<InvalidArgumentLine>> /\ exitCode = 0)
        /\ pc # "exited" => ENABLED NextCLI

\* C8 witness: the run with argument "abc" has exited
C8_Witness ==
    /\ pc = "exited"
    /\ argv = << <<"a", "b", "c">> >>
    /\ out = <<InvalidArgumentLine>>

\* the "<n>: <name>" lines of the output
ItemLines == SelectSeq(out, LAMBDA l : l.fmt = "<n>: <name>")

\* C9: with no argument main prints one "<i>: <display name>" line per
\* registry entry, count() lines in ascending key order, then the usage
\* hint; it calls run() on no sample and exits with code 0.
C9_ListsRegistry ==
    (pc = "exited" /\ ~HasArg) =>
        /\ Len(ItemLines) = count(samples_)
        /\ \A k \in 1..Len(ItemLines) :
              k <= count(samples_) => ItemLines[k] = ItemLine(k, RegistryNameAt(k))
        /\ out[Len(out)] = UsageLine
        /\ ran = << >>
        /\ exitCode = 0

\* the argument selects a sample of main's list
ValidArg == Parsed /\ ParsedNum >= 1 /\ ParsedNum <= Len(MainSamples)

\* C10 as stated: for every valid argument the exit code is 0 whatever
\* run() does, an escaping exception included.
C10_ExitZeroWhateverRunDoes ==
    (ValidArg /\ Terminal) => exitCode = 0

\* C10 amended: for every valid argument the exit code is 0 when run()
\* returns or lets an exception derived from std::exception escape; an
\* exception of another type is not caught by main, the process is
\* terminated and its status is not 0.
C10_ExitZeroUnlessForeignException ==
    ValidArg =>
        /\ runOutcome \in {"returned", "std_exception"} =>
              /\ pc # "aborted"
              /\ Terminal => exitCode = 0
        /\ runOutcome = "other_exception" => (pc = "aborted" /\ exitCode # 0)

\* C10 witness: run() threw a std::exception and the process exited with 0
C10_Witness ==
    /\ pc = "exited"
    /\ ValidArg
    /\ runOutcome = "std_exception"
    /\ exitCode = 0

----------------------------------------------------------------------------
(* Further properties of static initialization and of the registry *)

\* the registrars that have run
Registered == Registrations \ pending

\* C11: no two REGISTER_SAMPLE invocations of the repository use the same
\* order key: at every point of static initialization count() equals the
\* number of registrars that have run, and every one of them still has its
\* own entry (name and factory) in the registry, so that at the end count()
\* is the number of REGISTER_SAMPLE invocations and nothing was overwritten.
C11_NoKeyClash ==
    /\ \A r1, r2 \in Registrations : r1 # r2 => r1.order # r2.order
    /\ count(samples_) = Cardinality(Registered)
    /\ \A r \in Registered :
          /\ r.order \in DOMAIN samples_
          /\ samples_[r.order] = [name |-> r.name, factory |-> r.cls]
    /\ pending = {} => count(samples_) = Cardinality(Registrations)

\* C11 witness: static initialization is complete and the registry holds as
\* many entries as there are REGISTER_SAMPLE invocations
C11_Witness ==
    /\ pending = {}
    /\ Cardinality(DOMAIN samples_) = Cardinality(Registrations)
    /\ Cardinality(Registrations) > 1

\* C12: createAll() on a registry with no registration returns the empty
\* sequence (it invokes nothing and does not fail), and count() is 0.
C12_EmptyRegistry ==
    /\ calls = << >> => (samples_ = << >> /\ count(samples_) = 0)
    /\ \A c \in 1..Len(createLog) :
          createLog[c].ncalls = 0 =>
              /\ createLog[c].outcome = "returned"
              /\ createLog[c].result = << >>
              /\ createLog[c].invoked = << >>

\* C12 witness: createAll returned on the empty registry
C12_Witness ==
    /\ calls = << >>
    /\ createLog # << >>
    /\ createLog[1].outcome = "returned"
    /\ createLog[1].result = << >>

\* the createAll call logged by this step, when the step is one
LoggedNow == createLog'[Len(createLog')]

\* C13: when a factory fails during createAll(), the call ends with the
\* failure and returns no sequence (not even of the instances made so
\* far); the factories invoked are those of the keys up to the failing one,
\* in ascending order, so no factory of a larger key is invoked; and the
\* registry's entries and count() are what they were before the call.
C13_FactoryFailurePropagates ==
    [][(Len(createLog') = Len(createLog) + 1 /\ LoggedNow.outcome = "threw") =>
          /\ LoggedNow.result = << >>
          /\ Len(LoggedNow.keys) >= 1
          /\ Len(LoggedNow.invoked) = Len(LoggedNow.keys)
          /\ StrictlyAscending(LoggedNow.keys)
          /\ \A k \in DOMAIN samples_ :
                k \in Range(LoggedNow.keys)
                    <=> k <= LoggedNow.keys[Len(LoggedNow.keys)]
          /\ \A n \in 1..Len(LoggedNow.keys) :
                LoggedNow.invoked[n] = samples_[LoggedNow.keys[n]].factory
          /\ samples_' = samples_
          /\ count(samples_') = count(samples_)
          /\ nextId' < nextId + Len(LoggedNow.keys)
      ]_vars

\* C13 witness: a createAll failed at its first factory on a registry of at
\* least two entries (a larger key was left uninvoked)
C13_Witness ==
    \E c \in 1..Len(createLog) :
        /\ createLog[c].outcome = "threw"
        /\ Len(createLog[c].keys) = 1
        /\ count(samples_) >= 2
        /\ createLog[c].ncalls = Len(calls)

\* C14: a registerSample made after a createAll is accepted (the call is
\* always possible, whatever has been created before), and every createAll
\* that returns lists exactly the keys registered before it, the late ones
\* at their place in ascending order, each with its latest factory.
C14_LateRegistration ==
    /\ Len(calls) < MaxCalls =>
          \A n \in Names, k \in Keys, f \in Factories :
              ENABLED RegisterSample(n, k, f)
    /\ \A c \in Returned :
          LET e == createLog[c]
              H == CallsBefore(e)
          IN  /\ Range(e.keys) = OrdersOf(H)
              /\ StrictlyAscending(e.keys)
              /\ Len(e.result) = Len(e.keys)
              /\ \A n \in 1..Len(e.keys) :
                    e.result[n].cls = LastCall(H, e.keys[n]).factory

\* C14 witness: a key registered after a first createAll, smaller than a
\* key registered before it, comes first in the second createAll
C14_Witness ==
    \E c, d \in Returned :
        /\ c < d
        /\ createLog[c].ncalls = 1
        /\ createLog[d].ncalls = 2
        /\ calls[2].order < calls[1].order
        /\ createLog[d].keys = <<calls[2].order, calls[1].order>>

\* C15: the registry only grows: in every step count() does not decrease
\* and no key disappears; a registerSample with a new key adds exactly one
\* entry, one with an existing key leaves count() as it is, and neither
\* touches the entries of the other keys; createAll (returning or failing)
\* leaves every entry as it is. count() is a const member function: it
\* reads samples_ and is an operator on the state.
C15_RegistryOnlyGrows ==
    [][/\ count(samples_') >= count(samples_)
       /\ DOMAIN samples_ \subseteq DOMAIN samples_'
       /\ Len(calls') = Len(calls) + 1 =>
             LET k == calls'[Len(calls')].order
             IN  /\ count(samples_') =
                        IF k \in DOMAIN samples_ THEN count(samples_)
                                                 ELSE count(samples_) + 1
                 /\ DOMAIN samples_' = DOMAIN samples_ \cup {k}
                 /\ \A o \in DOMAIN samples_ : o # k => samples_'[o] = samples_[o]
       /\ Len(createLog') = Len(createLog) + 1 => samples_' = samples_
      ]_vars

\* C15 witness: the registry has seen a registration with a new key, one
\* with an existing key and a createAll
C15_Witness ==
    /\ Len(calls) = 2
    /\ calls[1].order = calls[2].order
    /\ count(samples_) = 1
    /\ createLog # << >>

----------------------------------------------------------------------------
(* Further properties of main (SpecCLI) *)

\* C18: when the sample selected by a valid argument lets an exception
\* derived from std::exception escape run(), main's handler takes it: the
\* process is not aborted, the only line main prints is the "Invalid
\* argument" message, and the exit code is 0, which is the output and exit
\* code of a run with a non-numeric argument.
C18_RunFailureLooksLikeParseFailure ==
    (ValidArg /\ runOutcome = "std_exception") =>
        /\ pc \in {"catch", "return", "exited"}
        /\ pc = "catch" => out = << >>
        /\ pc \in {"return", "exited"} => out = <<InvalidArgumentLine>>
        /\ pc = "exited" => exitCode = 0
        /\ Len(ran) = 1

\* C18 witness: a valid argument, run() threw a std::exception, and the
\* process has exited having printed the "Invalid argument" message
C18_Witness ==
    /\ pc = "exited"
    /\ ValidArg
    /\ Len(ran) = 1
    /\ runOutcome = "std_exception"
    /\ out = <<InvalidArgumentLine>>
    /\ exitCode = 0

\* the integer prefix of s, read off the characters: blanks, one optional
\* sign, then the digits up to the first character that is not a digit
IntegerPrefix(s) ==
    LET t   == SkipSpace(s)
        neg == t # << >> /\ Head(t) = "-"
        u   == IF t # << >> /\ Head(t) \in {"-", "+"} THEN Tail(t) ELSE t
        ds  == DigitPrefix(u)
        a   == NegAccumulate([v |-> 0, ovf |-> FALSE], ds)
        fits == ~a.ovf /\ (neg \/ a.v # IntMin)
    IN  [has   |-> ds # << >>,
         fits  |-> fits,
         value |-> IF ds # << >> /\ fits THEN (IF neg THEN a.v ELSE -a.v) ELSE 0,
         rest  |-> SubSeq(u, Len(ds) + 1, Len(u))]

\* an argument with an integer prefix n that fits in an int is handled as n,
\* whatever follows the digits: run() is called on sample n of main's list
\* when 1 <= n <= 14, and the "Invalid sample number" message is printed and
\* nothing is run otherwise
PrefixDecides ==
    HasArg =>
        LET p == IntegerPrefix(argv[1])
        IN  (p.has /\ p.fits) =>
               /\ pc \notin {"construct", "parse"} => num = p.value
               /\ (p.value >= 1 /\ p.value <= Len(MainSamples)) =>
                     /\ pc \in {"in_run", "catch", "return", "exited", "aborted"} =>
                           ran = <<samples[p.value]>>
                     /\ \A k \in 1..Len(out) : out[k] # InvalidNumberLine(Len(MainSamples))
                     /\ pc = "catch" => runOutcome = "std_exception"
               /\ (p.value < 1 \/ p.value > Len(MainSamples)) =>
                     /\ ran = << >>
                     /\ pc \notin {"in_run", "catch", "aborted"}
                     /\ pc \in {"return", "exited"} =>
                           out = <<InvalidNumberLine(Len(MainSamples))>>

\* C19 as stated: the argument is accepted by its integer prefix, and the
\* "Invalid argument" message is printed only when the argument has no
\* integer prefix or the prefix does not fit in an int.
C19_InvalidArgumentOnlyForBadNumber ==
    /\ PrefixDecides
    /\ (HasArg /\ InvalidArgumentLine \in Range(out)) =>
          \/ ~IntegerPrefix(argv[1]).has
          \/ ~IntegerPrefix(argv[1]).fits

\* C19 amended: the argument is accepted by its integer prefix, and the
\* "Invalid argument" message is printed only when the argument has no
\* integer prefix, or the prefix does not fit in an int, or the selected
\* sample's run() let an exception derived from std::exception escape; in
\* the first two cases it is always printed.
C19_PrefixAccepted ==
    /\ PrefixDecides
    /\ (HasArg /\ InvalidArgumentLine \in Range(out)) =>
          \/ ~IntegerPrefix(argv[1]).has
          \/ ~IntegerPrefix(argv[1]).fits
          \/ runOutcome = "std_exception"
    /\ (HasArg /\ pc = "exited" /\ (\/ ~IntegerPrefix(argv[1]).has
                                     \/ ~IntegerPrefix(argv[1]).fits)) =>
          out = <<InvalidArgumentLine>>

\* C19 witness: the run with argument "3abc" has exited after run() was
\* called on, and returned from, the third sample of main's list
C19_Witness ==
    /\ pc = "exited"
    /\ argv = << <<"3", "a", "b", "c">> >>
    /\ IntegerPrefix(argv[1]).rest = <<"a", "b", "c">>
    /\ ran = <<samples[3]>>
    /\ runOutcome = "returned"
    /\ out = << >>

----------------------------------------------------------------------------
(* Properties of ThreadSafetySample::run (SpecThreads) *)

\* run() has returned, or the process was ended by std::terminate
RunOver == demo \in {"done", "terminated"}

\* some thread, the main thread included, can take a step
NotBlocked == ENABLED (MainStep \/ \E t \in Threads : ThreadStep(t))

\* the threads of the current demonstration that were started
Started == {t \in Threads : tpc[t] # "none"}

\* C16: ThreadSafetySample::run() terminates in every interleaving of the
\* threads it starts. As long as run() has not returned some thread can take
\* a step without the help of a spurious wake-up (no deadlock, nobody blocked
\* forever); every demonstration has joined each thread it started when it
\* returns, so no joinable std::thread is destroyed; no mutex is left held;
\* and under a scheduler that runs every thread that stays runnable run()
\* reaches its end.
C16_RunTerminates ==
    /\ [](~RunOver => NotBlocked)
    /\ [](demo # "terminated")
    /\ []((InDemonstration /\ mi > Len(MainProgram(demo))) =>
            /\ \A t \in Started : tpc[t] = "joined"
            /\ \A m \in Mutexes : owner[m] = Free
            /\ rw_lock = [writer |-> Free, readers |-> {}]
            /\ cv_waiting = {})
    /\ <>(demo = "done")

\* C16 witness: the reader-writer demonstration has joined its six threads
\* after the writer wrote, and every demonstration before it has returned
C16_Witness ==
    /\ demo = "reader_writer_lock"
    /\ mi > Len(MainProgram(demo))
    /\ \A t \in Threads : tpc[t] = "joined"
    /\ shared_data = 1

----------------------------------------------------------------------------
(* Properties of demonstrate_awaitables (SpecCoro) *)

\* line a comes before line b in the output
PrintedInOrder(a, b) ==
    \E j, k \in 1..Len(coOut) : j < k /\ coOut[j] = a /\ coOut[k] = b

\* C17: with the delays of the source (100 ms, then 50 ms), once
\* demonstrate_awaitables() has printed "Task completed" the coroutine has
\* passed both co_await points: "After first delay" then "After second
\* delay" are in the output before it, and, as long as the Task is alive,
\* its done() is true.
C17_CompletedMeansDone ==
    (delays = <<100, 50>> /\ TaskCompletedLine \in Range(coOut)) =>
        /\ PrintedInOrder(AfterFirstLine, AfterSecondLine)
        /\ PrintedInOrder(AfterSecondLine, TaskCompletedLine)
        /\ callerPc = "destroy" => done(coPc)

----------------------------------------------------------------------------
(* Properties of ExceptionSafetyLevels (SpecSafety) *)

\* C20: a call of add_resource_strong_guarantee either succeeds completely
\* or has no effect. When it throws (name "FailStrong") resources_ is what
\* it was before the call, the SafetyResource made for the attempt has been
\* destroyed, and instance_count_ and every use count are back to their
\* values before the call; when it returns, resources_ is the old list with
\* the new resource at its end and instance_count_ is one more.
C20_StrongGuarantee ==
    [][\A name \in ResourceNames :
          AddResourceStrong(name) =>
             IF name = "FailStrong"
             THEN /\ addLog'[Len(addLog')].outcome = "threw"
                  /\ resources_' = resources_
                  /\ instance_count_' = instance_count_
                  /\ use_count' = use_count
                  /\ NewId \notin DOMAIN use_count'
             ELSE /\ addLog'[Len(addLog')].outcome = "returned"
                  /\ resources_' = Append(resources_, Resource(NewId, name))
                  /\ instance_count_' = instance_count_ + 1
                  /\ use_count' = [x \in (DOMAIN use_count) \cup {NewId} |->
                                     IF x = NewId THEN 1 ELSE use_count[x]]]_vars

\* C20 witness: the calls of test_strong_guarantee have been made:
\* "StrongTest" was added, then "FailStrong" threw, and the list holds the
\* one resource alive
C20_Witness ==
    /\ Len(addLog) = 2
    /\ addLog[1] = [op |-> "strong", name |-> "StrongTest", outcome |-> "returned"]
    /\ addLog[2] = [op |-> "strong", name |-> "FailStrong", outcome |-> "threw"]
    /\ resources_ = <<Resource(1, "StrongTest")>>
    /\ instance_count_ = 1
    /\ use_count = <<1>>

----------------------------------------------------------------------------
(* Properties of the counting demonstrations (SpecThreads) *)

\* the main thread has joined both threads of demonstration d
BothJoined(d) ==
    /\ demo = d
    /\ tpc[1] = "joined"
    /\ tpc[2] = "joined"

\* C24: in demonstrate_mutex_solution, with two threads that each increment
\* the counter K times under counter_mutex (K = MaxIter in the model), no
\* increment is lost in any interleaving: the counter never runs ahead of or
\* behind the increments completed, at most one thread is inside the
\* increment, and the counter is 2K once both threads are joined.
C24_MutexCounterExact ==
    demo = "mutex_solution" =>
        /\ counter = ti[1] + ti[2]
        /\ ~(tpc[1] \in {"locked_load", "locked_store"} /\
             tpc[2] \in {"locked_load", "locked_store"})
        /\ BothJoined("mutex_solution") => counter = 2 * MaxIter

\* C24 witness: both threads are joined and the counter is 2K
C24_Witness ==
    /\ BothJoined("mutex_solution")
    /\ ti[1] = MaxIter
    /\ ti[2] = MaxIter
    /\ counter = 2 * MaxIter

\* C25: in demonstrate_data_race the counter never exceeds the number of
\* increments performed, and whenever the two threads are both between the
\* load and the store of an increment (an interleaving the scheduler may
\* produce) an increment is lost: once both threads are joined the counter
\* is smaller than 2K, so the "Expected" value is not guaranteed.
C25_LostUpdate ==
    /\ [](demo = "data_race" => counter <= ti[1] + ti[2])
    /\ []((demo = "data_race" /\ tpc[1] = "store" /\ tpc[2] = "store") =>
             [](BothJoined("data_race") => counter < 2 * MaxIter))

\* C25 witness: both threads made their K increments, are joined, and the
\* counter is smaller than 2K
C25_Witness ==
    /\ BothJoined("data_race")
    /\ ti[1] = MaxIter
    /\ ti[2] = MaxIter
    /\ counter < 2 * MaxIter

----------------------------------------------------------------------------
(* Properties of Transaction (SpecTx) *)

\* C21: a Transaction destroyed without commit() has invoked every rollback
\* action added to it exactly once, the last added first, the ones after a
\* throwing action included; a Transaction destroyed after commit() has
\* invoked none; and none is invoked before the destructor runs.
C21_RollbackInReverse ==
    LET n == Len(rollbacks_)
    IN  /\ ~destroyed => executed = << >>
        /\ (destroyed /\ committed_) => executed = << >>
        /\ (destroyed /\ ~committed_) =>
              /\ Len(executed) = n
              /\ \A k \in 1..n :
                    /\ executed[k].index = n + 1 - k
                    /\ executed[k].name = rollbacks_[n + 1 - k].name

\* C21 witness: an uncommitted Transaction with three rollback actions was
\* destroyed, the action invoked first threw, and the other two were
\* invoked after it
C21_Witness ==
    /\ destroyed
    /\ ~committed_
    /\ Len(rollbacks_) >= 3
    /\ Len(executed) = Len(rollbacks_)
    /\ executed[1].threw
    /\ rollbacks_[1].name # rollbacks_[2].name

----------------------------------------------------------------------------
(* Properties of HeapResource and ProperResource (SpecRule) *)

LiveObjects == {o \in 1..MaxObjects : objects[o].state = "live"}

\* the live objects whose data_ points to buffer b
Owners(b) == {o \in LiveObjects : objects[o].data_ = b}

\* C22: after any sequence of constructions, copies, moves, assignments
\* (self-assignment included) and destructions of HeapResource and
\* ProperResource objects, no buffer is pointed to by two live objects, no
\* buffer is deleted twice, and once no object is alive every buffer that
\* was allocated has been deleted exactly once; as long as no operation
\* made an invalid access, a buffer is owned by exactly one live object
\* until it is deleted and by none afterwards.
C22_SingleOwner ==
    /\ \A b \in 1..MaxBuffers :
          /\ Cardinality(Owners(b)) <= 1
          /\ freed[b] <= 1
          /\ b > allocated => (freed[b] = 0 /\ Owners(b) = {})
    /\ LiveObjects = {} => \A b \in 1..allocated : freed[b] = 1
    /\ fault = "none" =>
          \A b \in 1..allocated : Cardinality(Owners(b)) = 1 - freed[b]

\* C22 witness: every buffer the bound allows was allocated, one object was
\* destroyed, one was moved from and is still alive, one owns a buffer, and
\* exactly the buffers without an owner were deleted
C22_Witness ==
    /\ fault = "none"
    /\ allocated = MaxBuffers
    /\ \E o \in 1..MaxObjects : objects[o].state = "destroyed"
    /\ \E o \in LiveObjects : objects[o].data_ = nullptr
    /\ \E o \in LiveObjects : objects[o].data_ # nullptr
    /\ \A b \in 1..allocated : freed[b] = 1 <=> Owners(b) = {}

\* C23: no operation on a HeapResource or a ProperResource, one that was
\* moved from included, reads or writes through a null or deleted pointer.
C23_MovedFromIsSafe == fault = "none"

====
